---- MODULE Spec2Model ----
(***************************************************************************)
(* Model of the metadata deployment pipeline of sfmcp                      *)
(* (src/app/mcp/tools/dynamic_tools.py): the create/update orchestrators,  *)
(* the deploy submitter and the deploy status poller, run against a        *)
(* remote platform whose answers are chosen nondeterministically.          *)
(*                                                                         *)
(* Identifiers are sequences of one-character strings, so that the name    *)
(* checks of the code (str.replace, str.isalnum, str.endswith, slicing)    *)
(* are computed character by character.  Time is counted in ticks of the   *)
(* poller's clock, relative to the poller's start.                         *)
(***************************************************************************)
EXTENDS Integers, Sequences, FiniteSets, TLC

\* ------------------------------------------------------------------ bounds
\* number of tool invocations in one behaviour
MaxCalls == 2
\* the poller's timeout_seconds, in ticks
timeout_seconds == 2
\* the poller's interval_seconds, in ticks
interval_seconds == 1
\* longest time one status request takes, in ticks
MaxRequestTime == 1

\* ------------------------------------------------------- characters, names
Letters == {"A", "C", "L", "O", "a", "b", "c", "d", "e", "i", "n", "o", "p",
            "r", "s", "t", "u", "y"}
Digits == {"1"}

\* identifiers a caller passes as class, bundle, object or field name
Names == { <<"A", "b">>,                \* well formed
           <<"1", "a">>,                \* starts with a digit
           <<"a", "-", "b">>,           \* contains a hyphen
           <<"a", "!">>,                \* contains punctuation
           <<>>,                        \* empty
           <<"A", "b", "_", "_", "c">> }  \* well formed, custom suffix

Suffix == <<"_", "_", "c">>

StandardObjects == { <<"A", "c", "c", "o", "u", "n", "t">>,
                     <<"C", "o", "n", "t", "a", "c", "t">>,
                     <<"L", "e", "a", "d">>,
                     <<"O", "p", "p", "o", "r", "t", "u", "n", "i", "t", "y">>,
                     <<"C", "a", "s", "e">> }

\* object names a caller passes to upsert_custom_field
ObjectNames == { <<"C", "a", "s", "e">>, <<"O", "b">>, <<"1", "o">>, <<"a", "!">> }

\* str.isalpha / str.isdigit of one character
IsAlpha(ch) == ch \in Letters
IsDigit(ch) == ch \in Digits

\* str.replace(ch, "")
RECURSIVE Remove(_, _)
Remove(s, ch) ==
    IF s = <<>> THEN <<>>
    ELSE IF Head(s) = ch THEN Remove(Tail(s), ch)
         ELSE <<Head(s)>> \o Remove(Tail(s), ch)

\* str.isalnum(): non-empty and every character a letter or a digit
IsAlnum(s) == /\ Len(s) > 0
              /\ \A i \in 1..Len(s) : IsAlpha(s[i]) \/ IsDigit(s[i])

\* str.endswith("__c")
EndsWithSuffix(s) == /\ Len(s) >= 3
                     /\ SubSeq(s, Len(s) - 2, Len(s)) = Suffix

\* s[:-3]
DropLast3(s) == IF Len(s) >= 3 THEN SubSeq(s, 1, Len(s) - 3) ELSE <<>>

\* create_apex_class: class_name.replace("_", "").isalnum()
ValidClassName(n) == IsAlnum(Remove(n, "_"))

\* create_lwc_component / upsert_lwc_component:
\* component_name and component_name.replace("_","").replace("-","").isalnum()
ValidComponentName(n) == /\ n # <<>>
                         /\ IsAlnum(Remove(Remove(n, "_"), "-"))

\* upsert_custom_object: append __c when missing
NormalizeCustomObject(n) == IF EndsWithSuffix(n) THEN n ELSE n \o Suffix

\* upsert_custom_object: object_name[:-3].replace("_", "").isalnum()
ValidObjectName(n) == IsAlnum(Remove(DropLast3(n), "_"))

\* upsert_custom_field._normalize_object_name
normalize_object_name(o) ==
    IF o \in StandardObjects THEN o
    ELSE IF EndsWithSuffix(o) THEN o ELSE o \o Suffix

\* upsert_custom_field: field_api_name with __c appended when missing
NormalizeFieldName(n) == IF EndsWithSuffix(n) THEN n ELSE n \o Suffix

\* upsert_custom_field._valid_custom_name
valid_custom_name(n) ==
    /\ EndsWithSuffix(n)
    /\ LET core == DropLast3(n) IN
         /\ core # <<>>
         /\ IsAlpha(core[1])
         /\ IsAlnum(Remove(core, "_"))

\* upsert_custom_field: the object name test after normalisation
ValidFieldObject(o) == o \in StandardObjects \/ valid_custom_name(o)

\* ------------------------------------------------------------------- tools
CreateTools == {"create_apex_class", "create_lwc_component"}
UpdateTools == {"upsert_apex_class", "upsert_lwc_component",
                "upsert_custom_object", "upsert_custom_field"}
ApexTools == {"create_apex_class", "upsert_apex_class"}
LwcTools == {"create_lwc_component", "upsert_lwc_component"}
Tools == CreateTools \cup UpdateTools

\* what the html/js arguments of the LWC tools hold
\* ("with_css": html and js as in "plain", and a non-blank css_content)
Contents == {"plain", "blank_html", "blank_js", "apex_import", "with_css"}

\* ------------------------------------------------------- remote documents
\* deployResult.details: absent (present = FALSE) or an object with the
\* numbers of componentFailures and componentSuccesses it lists
NoDetails == [present |-> FALSE, componentFailures |-> 0, componentSuccesses |-> 0]
Details(f, s) == [present |-> TRUE, componentFailures |-> f, componentSuccesses |-> s]

TerminalStatuses == {"Succeeded", "SucceededPartial", "Failed", "Canceled"}

\* the details the platform reports with a terminal status
DetailsFor(st) ==
    CASE st = "Succeeded"        -> {NoDetails, Details(0, 1)}
      [] st = "SucceededPartial" -> {NoDetails, Details(1, 1)}
      [] st = "Failed"           -> {NoDetails, Details(1, 0), Details(0, 0)}
      [] OTHER                   -> {NoDetails}

\* answers to GET metadata/deployRequest/{id}: the request fails
\* (transport error, HTTP error status) or returns a body; has_status says
\* whether deployResult carries a status key
StatusResponses ==
    { [kind |-> k, done |-> FALSE, has_status |-> FALSE, status |-> "", details |-> NoDetails] :
          k \in {"transport_error", "http_error"} }
    \cup
    { [kind |-> "ok", done |-> FALSE, has_status |-> (st # ""), status |-> st,
       details |-> NoDetails] : st \in {"", "Pending", "InProgress", "Succeeded"} }
    \cup
    { [kind |-> "ok", done |-> FALSE, has_status |-> TRUE, status |-> "InProgress",
       details |-> Details(0, 0)] }
    \cup
    { [kind |-> "ok", done |-> TRUE, has_status |-> FALSE, status |-> "", details |-> NoDetails] }
    \cup
    UNION { { [kind |-> "ok", done |-> TRUE, has_status |-> TRUE, status |-> st, details |-> d] :
                d \in DetailsFor(st) } : st \in TerminalStatuses }

\* answers to POST metadata/deployRequest
SubmitResponses == {"transport_error", "http_error", "no_id", "ok"}

\* --------------------------------------------------------------- requests
\* one entry of the log of remote calls of the current invocation
Req(op, target, outcome) ==
    [op |-> op, target |-> target, checkOnly |-> FALSE, id |-> 0,
     outcome |-> outcome, st |-> "", details |-> NoDetails, archive |-> <<>>]
\* the deploy POST with the archive it uploads
DeployReq(check_only, id, outcome, zip_buffer) ==
    [op |-> "deploy", target |-> "deployRequest", checkOnly |-> check_only,
     id |-> id, outcome |-> outcome, st |-> "", details |-> NoDetails,
     archive |-> zip_buffer]
\* a status request addressed to another job than the one submitted
StatusReq_OtherId(id, outcome, st, details) ==
    [op |-> "status", target |-> "deployRequest", checkOnly |-> FALSE,
     id |-> id + 1, outcome |-> outcome, st |-> st, details |-> details,
     archive |-> <<>>]

\* a status request; st and details are those of a body with done = true
StatusReq(id, outcome, st, details) ==
    [op |-> "status", target |-> "deployRequest", checkOnly |-> FALSE,
     id |-> id, outcome |-> outcome, st |-> st, details |-> details,
     archive |-> <<>>]

MutatingOps == {"deploy", "create", "update"}

\* ------------------------------------------------- python values and text
\* A text is the sequence of its tokens; the characters _parse_kv and
\* _build_field_config split on are tokens of their own.  A python value is
\* a record: t names its type and b, i, s or l holds it.
NoneV == [t |-> "none", b |-> FALSE, i |-> 0, s |-> <<>>, l |-> <<>>]
BoolV(x) == [NoneV EXCEPT !.t = "bool", !.b = x]
IntV(n) == [NoneV EXCEPT !.t = "int", !.i = n]
StrV(x) == [NoneV EXCEPT !.t = "str", !.s = x]
ListV(x) == [NoneV EXCEPT !.t = "list", !.l = x]
\* a key the dict does not hold
Absent == [NoneV EXCEPT !.t = "absent"]

\* bool(v) as python's `if v` computes it
Truthy(v) ==
    CASE v.t = "bool" -> v.b
      [] v.t = "int"  -> v.i # 0
      [] v.t = "str"  -> v.s # <<>>
      [] v.t = "list" -> v.l # <<>>
      [] OTHER        -> FALSE

\* the decimal texts of the model and the integers int() reads from them
IntTexts == {"0", "1", "2", "3", "5", "18", "80", "255", "32768"}
IntOf(tok) ==
    CASE tok = "0" -> 0 [] tok = "1" -> 1 [] tok = "2" -> 2 [] tok = "3" -> 3
      [] tok = "5" -> 5 [] tok = "18" -> 18 [] tok = "80" -> 80
      [] tok = "255" -> 255 [] OTHER -> 32768

\* str.lower() of one token
Lower(tok) ==
    CASE tok = "True" -> "true"
      [] tok = "False" -> "false"
      [] tok = "Text" -> "text"
      [] tok = "Email" -> "email"
      [] tok = "LongTextArea" -> "longtextarea"
      [] tok = "Number" -> "number"
      [] tok = "Currency" -> "currency"
      [] tok = "Percent" -> "percent"
      [] tok = "Checkbox" -> "checkbox"
      [] tok = "Date" -> "date"
      [] tok = "Picklist" -> "picklist"
      [] tok = "Lookup" -> "lookup"
      [] tok = "MasterDetail" -> "masterdetail"
      [] tok = "Master-Detail" -> "master-detail"
      [] tok = "Succeeded" -> "succeeded"
      [] tok = "SucceededPartial" -> "succeededpartial"
      [] tok = "Failed" -> "failed"
      [] tok = "Canceled" -> "canceled"
      [] tok = "Timeout" -> "timeout"
      [] OTHER -> tok

\* str(v)
PyStr(v) ==
    CASE v.t = "bool" -> IF v.b THEN <<"True">> ELSE <<"False">>
      [] v.t = "int"  -> <<CHOOSE tok \in IntTexts : IntOf(tok) = v.i>>
      [] v.t = "str"  -> v.s
      [] OTHER        -> <<"None">>

\* str(v).lower()
PyStrLower(v) == [k \in DOMAIN PyStr(v) |-> Lower(PyStr(v)[k])]

\* re.split on a class of one-character separators
RECURSIVE Split(_, _)
Split(s, seps) ==
    IF \E k \in DOMAIN s : s[k] \in seps
    THEN LET k == CHOOSE x \in DOMAIN s :
                     s[x] \in seps /\ \A y \in 1..(x - 1) : s[y] \notin seps
         IN <<SubSeq(s, 1, k - 1)>> \o Split(SubSeq(s, k + 1, Len(s)), seps)
    ELSE <<s>>

\* _parse_kv: the coercion of a value text to bool or int (no text of the
\* model has the form of a float)
Coerce(v) ==
    IF Len(v) = 1 /\ Lower(v[1]) \in {"true", "false"}
    THEN BoolV(Lower(v[1]) = "true")
    ELSE IF Len(v) = 1 /\ v[1] \in IntTexts
         THEN IntV(IntOf(v[1]))
         ELSE StrV(v)

\* "=" in pair
HasEquals(pair) == \E k \in DOMAIN pair : pair[k] = "="

\* k, v = pair.split("=", 1); out[k] = coerced v
KeyValue(pair) ==
    LET k == CHOOSE x \in DOMAIN pair :
                 pair[x] = "=" /\ \A y \in 1..(x - 1) : pair[y] # "="
    IN [k |-> SubSeq(pair, 1, k - 1), v |-> Coerce(SubSeq(pair, k + 1, Len(pair)))]

\* _parse_kv: the dict as the sequence of its assignments, the last one of
\* a key being its value
parse_kv(s) ==
    IF s = <<>> THEN <<>>
    ELSE LET pairs == SelectSeq(Split(s, {";", ","}), HasEquals)
         IN [k \in DOMAIN pairs |-> KeyValue(pairs[k])]

\* key in tp
InDict(tp, key) == \E k \in DOMAIN tp : tp[k].k = <<key>>

\* tp.get(key, default)
Get(tp, key, default) ==
    IF InDict(tp, key)
    THEN tp[CHOOSE k \in DOMAIN tp :
                tp[k].k = <<key>> /\ \A y \in DOMAIN tp : tp[y].k = <<key>> => y <= k].v
    ELSE default

\* the value texts of a picklist:
\* [v.strip() for v in re.split(r"[|,]", vals_raw) if v.strip()]
NonEmpty(x) == x # <<>>
PicklistItems(vals_raw) ==
    IF vals_raw.t = "str"
    THEN SelectSeq(Split(vals_raw.s, {"|", ","}), NonEmpty)
    ELSE <<>>

\* {"fullName": item, "label": item, "default": False}
PicklistValue(item) == [fullName |-> item, label |-> item, default |-> FALSE]

\* ------------------------------------------------- field configurations
\* the keys a field configuration may hold; a key it does not hold is Absent
NoConfig ==
    [fullName |-> Absent, name |-> Absent, label |-> Absent, type |-> Absent,
     required |-> Absent, description |-> Absent, length |-> Absent,
     visibleLines |-> Absent, precision |-> Absent, scale |-> Absent,
     defaultValue |-> Absent, picklistValues |-> Absent, referenceTo |-> Absent,
     relationshipName |-> Absent, relationshipLabel |-> Absent,
     deleteConstraint |-> Absent, unique |-> Absent, externalId |-> Absent]

\* key in field_config
Has(cfg, key) == cfg[key] # Absent

\* field_config.get(key)
GetKey(cfg, key) == IF Has(cfg, key) THEN cfg[key] ELSE NoneV

\* field_config["type"]
TypeOf(cfg) == cfg.type.s[1]

\* ------------------------------------------------------------- documents
\* an XML element: its tag, its text, and for valueSet the value elements
\* of its valueSetDefinition; ok = FALSE when the text assigned to it is
\* neither a str nor None, which makes lxml raise TypeError
NoDocument == [root |-> "", fullName |-> Absent, fields |-> <<>>]

\* SubElement(parent, tag).text = v
Element(tag, v) ==
    [tag |-> tag, text |-> IF v.t = "str" THEN v.s ELSE <<>>, values |-> <<>>,
     ok |-> v.t \in {"str", "none"}]

\* <value><fullName/><label/><default/></value>
ValueElement(pv) ==
    [fullName |-> pv.fullName, label |-> pv.label,
     default |-> PyStrLower(BoolV(pv.default))]

\* <valueSet><restricted>true</restricted><valueSetDefinition>...
ValueSetElement(pvs) ==
    [tag |-> "valueSet", text |-> <<>>,
     values |-> [k \in DOMAIN pvs |-> ValueElement(pvs[k])], ok |-> TRUE]

\* the elements a branch of a generator adds when its condition holds
When(cond, elements) == IF cond THEN elements ELSE <<>>

\* a text assignment of the generator raised
Raises(doc) == \E k \in DOMAIN doc.fields : ~doc.fields[k].ok

\* ------------------------------------------------------ XML generators
\* length written for every type that holds the key
length_applies_AnyType(cfg) == Has(cfg, "length")

\* the type tests of the generators (_generate_custom_object_with_field and
\* _generate_custom_field_xml make the same ones)
length_applies(cfg) == TypeOf(cfg) \in {"Text", "LongTextArea"} /\ Has(cfg, "length")
visibleLines_applies(cfg) == TypeOf(cfg) = "LongTextArea" /\ Has(cfg, "visibleLines")
number_applies(cfg) == TypeOf(cfg) \in {"Number", "Currency", "Percent"}
valueSet_applies(cfg) ==
    /\ TypeOf(cfg) \in {"Picklist", "MultiselectPicklist"}
    /\ Truthy(GetKey(cfg, "picklistValues"))
relationship_applies(cfg) ==
    /\ TypeOf(cfg) \in {"Lookup", "MasterDetail"}
    /\ Truthy(GetKey(cfg, "referenceTo"))

\* for tag in ("required", "unique", "externalId"): str(...).lower()
BooleanElements(cfg) ==
    When(Has(cfg, "required"), <<Element("required", StrV(PyStrLower(cfg.required)))>>)
    \o When(Has(cfg, "unique"), <<Element("unique", StrV(PyStrLower(cfg.unique)))>>)
    \o When(Has(cfg, "externalId"),
            <<Element("externalId", StrV(PyStrLower(cfg.externalId)))>>)

\* _generate_custom_object_with_field: the CustomObject document with its
\* one fields block
generate_custom_object_with_field(object_name, cfg) ==
    [root |-> "CustomObject",
     fullName |-> IF EndsWithSuffix(object_name) THEN StrV(object_name) ELSE Absent,
     fields |->
        <<Element("fullName", cfg.fullName), Element("label", cfg.label),
          Element("type", cfg.type)>>
        \o When(length_applies(cfg), <<Element("length", StrV(PyStr(cfg.length)))>>)
        \o When(visibleLines_applies(cfg),
                <<Element("visibleLines", StrV(PyStr(cfg.visibleLines)))>>)
        \o When(number_applies(cfg) /\ Has(cfg, "precision"),
                <<Element("precision", StrV(PyStr(cfg.precision)))>>)
        \o When(number_applies(cfg) /\ Has(cfg, "scale"),
                <<Element("scale", StrV(PyStr(cfg.scale)))>>)
        \o When(valueSet_applies(cfg), <<ValueSetElement(cfg.picklistValues.l)>>)
        \o When(relationship_applies(cfg),
                <<Element("referenceTo", cfg.referenceTo)>>
                \o When(Has(cfg, "relationshipLabel"),
                        <<Element("relationshipLabel", cfg.relationshipLabel)>>)
                \o When(Has(cfg, "relationshipName"),
                        <<Element("relationshipName", cfg.relationshipName)>>)
                \o When(TypeOf(cfg) = "MasterDetail" /\ Has(cfg, "deleteConstraint"),
                        <<Element("deleteConstraint", cfg.deleteConstraint)>>))
        \o BooleanElements(cfg)
        \o When(Truthy(GetKey(cfg, "description")),
                <<Element("description", cfg.description)>>)]

\* _generate_custom_field_xml: the CustomField document
generate_custom_field_xml(cfg) ==
    [root |-> "CustomField",
     fullName |-> Absent,
     fields |->
        <<Element("fullName", cfg.fullName), Element("label", cfg.label),
          Element("type", cfg.type)>>
        \o When(length_applies(cfg), <<Element("length", StrV(PyStr(cfg.length)))>>)
        \o When(number_applies(cfg) /\ Has(cfg, "precision"),
                <<Element("precision", StrV(PyStr(cfg.precision)))>>)
        \o When(number_applies(cfg) /\ Has(cfg, "scale"),
                <<Element("scale", StrV(PyStr(cfg.scale)))>>)
        \o When(Truthy(GetKey(cfg, "defaultValue")),
                <<Element("defaultValue", StrV(PyStr(cfg.defaultValue)))>>)
        \o When(Truthy(GetKey(cfg, "description")),
                <<Element("description", StrV(PyStr(cfg.description)))>>)
        \o BooleanElements(cfg)
        \o When(valueSet_applies(cfg), <<ValueSetElement(cfg.picklistValues.l)>>)
        \o When(relationship_applies(cfg),
                <<Element("referenceTo", cfg.referenceTo)>>
                \o When(Has(cfg, "relationshipLabel"),
                        <<Element("relationshipLabel", cfg.relationshipLabel)>>)
                \o When(Has(cfg, "relationshipName"),
                        <<Element("relationshipName", cfg.relationshipName)>>))]

\* ------------------------------------------------------ field arguments
\* the label argument of upsert_custom_field, the same in every invocation
label == <<"Label">>

\* the field_type, type_params, required and description arguments
FieldArgs(ft, tp, req, descr) ==
    [field_type |-> ft, type_params |-> tp, required |-> req, description |-> descr]

NoFieldArgs == FieldArgs("", <<>>, FALSE, <<>>)

\* the arguments a caller of the tool passes in the workflow model: a text
\* field, a picklist without values, a lookup whose referenceTo reads as a
\* number
InvokeFieldArgs ==
    { FieldArgs("Text", <<"length", "=", "80">>, FALSE, <<>>),
      FieldArgs("Picklist", <<>>, TRUE, <<"d">>),
      FieldArgs("Lookup", <<"referenceTo", "=", "5">>, FALSE, <<>>) }

\* --------------------------------------------------------------- archives
\* the api version of the connection
api_version == "59.0"

\* the manifest declaring no member
generate_package_xml_NoMembers(members, metadata_type, version) ==
    [members |-> <<>>, name |-> metadata_type, version |-> version]

\* _generate_package_xml: one <types> block with a <members> element per
\* member, the <name> of the metadata type, and the <version>
generate_package_xml(members, metadata_type, version) ==
    [members |-> members, name |-> metadata_type, version |-> version]

NoPackage == [members |-> <<>>, name |-> "", version |-> ""]

\* z.writestr(path, ...): an entry of the archive; package is the manifest
\* it holds, document the CustomObject document it holds
Entry(path, package, document) ==
    [path |-> path, package |-> package, document |-> document]

\* deploy_apex_class_internal: the archive of an Apex class
apex_archive(class_name) ==
    << Entry(<<"package.xml">>,
             generate_package_xml(<<class_name>>, "ApexClass", api_version), NoDocument),
       Entry(<<"classes/">> \o class_name \o <<".cls">>, NoPackage, NoDocument),
       Entry(<<"classes/">> \o class_name \o <<".cls-meta.xml">>, NoPackage, NoDocument) >>

\* deploy_lwc_component_internal: the archive of a bundle; no orchestrator
\* puts an svg into files_content
lwc_archive(component_name, css) ==
    LET base == <<"lwc/">> \o component_name \o <<"/">> \o component_name IN
    << Entry(<<"package.xml">>,
             generate_package_xml(<<component_name>>, "LightningComponentBundle",
                                  api_version), NoDocument),
       Entry(base \o <<".html">>, NoPackage, NoDocument),
       Entry(base \o <<".js">>, NoPackage, NoDocument),
       Entry(base \o <<".js-meta.xml">>, NoPackage, NoDocument) >>
    \o When(css, <<Entry(base \o <<".css">>, NoPackage, NoDocument)>>)

\* upsert_custom_object: the archive of a custom object (the document of
\* _generate_custom_object_xml is not modelled)
object_archive(object_name) ==
    << Entry(<<"package.xml">>,
             generate_package_xml(<<object_name>>, "CustomObject", api_version),
             NoDocument),
       Entry(<<"objects/">> \o object_name \o <<".object">>, NoPackage, NoDocument) >>

\* upsert_custom_field: the archive of a field, its member named
\* {object_name}.{field_name}
field_archive(object_name, fname, document) ==
    << Entry(<<"package.xml">>,
             generate_package_xml(<<object_name \o <<".">> \o fname>>, "CustomField",
                                  api_version), NoDocument),
       Entry(<<"objects/">> \o object_name \o <<".object">>, NoPackage, document) >>

\* ------------------------------------------------- read-only tool values
\* no deployResult read
NoResult ==
    [kind |-> "", done |-> FALSE, has_status |-> FALSE, status |-> "",
     details |-> NoDetails]

\* the threads that run tools
Threads == {"t1", "t2"}

\* get_salesforce_connection has returned nothing
NoConnection == [conn |-> 0, cached |-> FALSE, user_id |-> "", error |-> ""]

\* _do_login before it generated a state
NoLogin == [state |-> "", popped |-> "", result |-> ""]

\* refresh_salesforce_token not called yet
NoRefresh == [calls |-> 0, user_id |-> "", ok |-> FALSE]

\* -------------------------------------------------------------- envelopes
NoFls == [permission_set_id |-> FALSE, assigned_to_me |-> FALSE,
          field_permissions_id |-> FALSE]

BaseEnvelope ==
    [returned |-> TRUE, success |-> FALSE, error |-> "", operation |-> "",
     job_id |-> 0, status |-> "", message |-> "", errors |-> NoDetails,
     details |-> NoDetails, has_fls |-> FALSE, fls_grant |-> NoFls,
     field_name |-> <<>>]

NoResponse == [BaseEnvelope EXCEPT !.returned = FALSE]

\* {"success": False, "error": text}
ErrorEnvelope(text) == [BaseEnvelope EXCEPT !.error = text]

\* the poller's return value; raised = an exception left the poller
NoStatus == [returned |-> FALSE, raised |-> FALSE, exc |-> "", success |-> FALSE,
             status |-> "", details |-> NoDetails]
Raised(e) == [NoStatus EXCEPT !.returned = TRUE, !.raised = TRUE, !.exc = e]

VARIABLES
    calls,        \* tool invocations started so far
    tool,         \* the tool being run ("" before the first)
    name,         \* its class / bundle / object / field name argument
    objname,      \* upsert_custom_field: its object_name argument
    content,      \* LWC tools: what html/js hold
    exists,       \* remote: the named entity exists
    parent,       \* remote: the object of the named field exists
    pc,           \* position in the handler
    reqs,         \* remote calls of this invocation, in order
    jobCount,     \* remote: deploy jobs created so far
    dep,          \* id the submission returned (0: none)
    elapsed,      \* poller: time.time() - start
    status,       \* poller: its return value
    is_update,    \* upsert_custom_field: describe listed the field
    fls_result,   \* upsert_custom_field: the fls_grant sub-result
    response,     \* the envelope the tool returned
    field_type,   \* upsert_custom_field: its field_type argument
    type_params,  \* upsert_custom_field: its type_params argument
    required,     \* upsert_custom_field: its required argument
    description,  \* upsert_custom_field: its description argument
    field_config, \* upsert_custom_field: the dict _build_field_config returned
    field_xml,    \* upsert_custom_field: the CustomField document
    obj_xml,      \* upsert_custom_field: the CustomObject document of the archive
    result,       \* poller, get_metadata_deploy_status: the deployResult read last
    job,          \* remote: the deployResult the platform holds for job 1
    job_id,       \* get_metadata_deploy_status: its job_id argument
    include_details, \* get_metadata_deploy_status: its include_details argument
    status_calls, \* the calls of get_metadata_deploy_status so far, oldest first
    local,        \* salesforce.py: sf_connection of each thread's local (0: unset or None)
    connections,  \* the Salesforce objects constructed so far
    tpc,          \* position of each thread in get_salesforce_connection or _do_login
    got,          \* what each thread's last call returned, and whether from the cache
    first,        \* the connection each thread's local took since it was last cleared
    oauth_tokens, \* oauth_auth._oauth_tokens: the entries in insertion order
    oauth_callback_data, \* oauth_auth._oauth_callback_data: its keys
    callbacks,    \* the requests the callback server received so far
    access_tokens, \* remote: the access tokens issued so far, with user and time
    now,          \* time.time(), in ticks of TickSeconds
    login,        \* _do_login of each thread: state, popped entry, result
    loginCount,   \* the logins started so far
    refreshed,    \* refresh_salesforce_token: the calls so far and what the last returned
    allow_write,  \* test runner: args.allow_write
    results,      \* test runner: the outcomes of run_tool so far
    invoked       \* test runner: the tools whose function was called, oldest first

args == <<field_type, type_params, required, description>>
documents == <<field_config, field_xml, obj_xml>>
reader == <<job, job_id, include_details, status_calls>>
cache == <<local, connections, tpc, got, first>>
oauth == <<oauth_tokens, oauth_callback_data, callbacks, access_tokens, now,
           login, loginCount, refreshed>>
runner == <<allow_write, results, invoked>>
service == <<reader, cache, oauth, runner>>

vars == <<calls, tool, name, objname, content, exists, parent, pc, reqs,
          jobCount, dep, elapsed, status, is_update, fls_result, response,
          args, documents, result, service>>

\* no read-only tool has run and no thread has asked for a connection
IdleCache ==
    /\ job = NoResult
    /\ job_id = 0
    /\ include_details = TRUE
    /\ status_calls = <<>>
    /\ local = [t \in Threads |-> 0]
    /\ connections = <<>>
    /\ tpc = [t \in Threads |-> "idle"]
    /\ got = [t \in Threads |-> NoConnection]
    /\ first = [t \in Threads |-> 0]

\* nobody has logged in
NoSessions ==
    /\ oauth_tokens = <<>>
    /\ oauth_callback_data = {}
    /\ callbacks = {}
    /\ access_tokens = <<>>
    /\ now = 0
    /\ login = [t \in Threads |-> NoLogin]
    /\ loginCount = 0
    /\ refreshed = NoRefresh

\* the test runner has not run
IdleRunner ==
    /\ allow_write = FALSE
    /\ results = <<>>
    /\ invoked = <<>>

IdleService == IdleCache /\ NoSessions /\ IdleRunner

\* no tool has been invoked
IdleTool ==
    /\ calls = 0
    /\ tool = ""
    /\ name = <<>>
    /\ objname = <<>>
    /\ content = "plain"
    /\ exists = FALSE
    /\ parent = TRUE
    /\ pc = "idle"
    /\ reqs = <<>>
    /\ jobCount = 0
    /\ dep = 0
    /\ elapsed = 0
    /\ status = NoStatus
    /\ is_update = FALSE
    /\ fls_result = NoFls
    /\ response = NoResponse
    /\ field_type = ""
    /\ type_params = <<>>
    /\ required = FALSE
    /\ description = <<>>
    /\ field_config = NoConfig
    /\ field_xml = NoDocument
    /\ obj_xml = NoDocument
    /\ result = NoResult

Init == IdleTool /\ IdleService

\* the field arguments of an invocation: they vary in the invocations
\* that read them, those of upsert_custom_field whose two names pass the
\* validation
InvokeArgsFor(t, n, o) ==
    IF t # "upsert_custom_field" THEN {NoFieldArgs}
    ELSE IF /\ valid_custom_name(NormalizeFieldName(n))
            /\ ValidFieldObject(normalize_object_name(o))
         THEN InvokeFieldArgs
         ELSE {FieldArgs("Text", <<"length", "=", "80">>, FALSE, <<>>)}

\* A caller invokes a tool: the state of the invocation before is gone.
Invoke ==
    /\ pc = "idle"
    /\ calls < MaxCalls
    /\ calls' = calls + 1
    /\ tool' \in Tools
    /\ name' = <<>>
    /\ objname' = <<>>
    /\ exists' = FALSE
    /\ parent' = TRUE
    /\ content' = "plain"
    /\ field_type' = ""
    /\ type_params' = <<>>
    /\ required' = FALSE
    /\ description' = <<>>
    /\ pc' = "invoke"
    /\ reqs' = <<>>
    /\ dep' = 0
    /\ elapsed' = 0
    /\ status' = NoStatus
    /\ is_update' = FALSE
    /\ fls_result' = NoFls
    /\ response' = NoResponse
    /\ field_config' = NoConfig
    /\ field_xml' = NoDocument
    /\ obj_xml' = NoDocument
    /\ UNCHANGED <<jobCount, result, service>>

\* The arguments of the invocation, and the state the remote platform is in.
InvokeArguments ==
    /\ pc = "invoke"
    /\ \E n \in Names, e \in BOOLEAN :
          /\ name' = n
          /\ exists' = e
          /\ \E o \in (IF tool = "upsert_custom_field" THEN ObjectNames ELSE {<<>>}) :
             \E p \in (IF tool = "upsert_custom_field" THEN BOOLEAN ELSE {TRUE}),
                c \in (IF tool \in LwcTools THEN Contents ELSE {"plain"}),
                a \in InvokeArgsFor(tool, n, o) :
                /\ objname' = o
                /\ parent' = p
                /\ content' = c
                /\ field_type' = a.field_type
                /\ type_params' = a.type_params
                /\ required' = a.required
                /\ description' = a.description
    /\ pc' = "conn"
    /\ UNCHANGED <<service, result, documents, calls, tool, reqs, jobCount, dep, elapsed,
                   status, is_update, fls_result, response>>

\* the handler returns envelope e
Return(e) ==
    /\ response' = e
    /\ pc' = "idle"

\* sf = get_salesforce_connection(): a connection, or an exception that the
\* handler's catch-all turns into an error envelope
get_salesforce_connection ==
    /\ pc = "conn"
    /\ \/ /\ pc' = "body"
          /\ UNCHANGED response
       \/ Return(ErrorEnvelope("No active Salesforce sessions found"))
    /\ UNCHANGED <<service, result, args, documents, calls, tool, name, objname, content, exists, parent, reqs,
                   jobCount, dep, elapsed, status, is_update, fls_result>>

\* what an existence query answers: the truth, or it raises
ExistenceAnswers == {"raise", IF exists THEN "found" ELSE "absent"}

\* ------------------------------------------------------ Apex class tools
\* create_apex_class without its existence test
create_apex_class_decision_NoExistenceTest(q, n) ==
    IF ~ValidClassName(n) THEN "invalid" ELSE "deploy"

\* create_apex_class after its query answered q: the existence test, then
\* the name test, then the deploy
create_apex_class_decision(q, n) ==
    IF q = "found" THEN "exists"
    ELSE IF ~ValidClassName(n) THEN "invalid"
    ELSE "deploy"

create_apex_class ==
    /\ pc = "body"
    /\ tool = "create_apex_class"
    /\ \E q \in ExistenceAnswers :
          /\ reqs' = Append(reqs, Req("query", "ApexClass", q))
          /\ IF q = "raise"
             THEN Return(ErrorEnvelope("SalesforceError"))
             ELSE CASE create_apex_class_decision(q, name) = "exists" ->
                           Return(ErrorEnvelope("Apex class already exists"))
                    [] create_apex_class_decision(q, name) = "invalid" ->
                           Return(ErrorEnvelope("Invalid class name"))
                    [] OTHER -> /\ pc' = "submit"
                                /\ UNCHANGED response
    /\ UNCHANGED <<service, result, args, documents, calls, tool, name, objname, content, exists, parent,
                   jobCount, dep, elapsed, status, is_update, fls_result>>

\* upsert_apex_class without its test of totalSize
upsert_apex_class_decision_NoTest(q) == "deploy"

\* upsert_apex_class after its query answered q: no name test
upsert_apex_class_decision(q) ==
    IF q = "absent" THEN "not_found" ELSE "deploy"

upsert_apex_class ==
    /\ pc = "body"
    /\ tool = "upsert_apex_class"
    /\ \E q \in ExistenceAnswers :
          /\ reqs' = Append(reqs, Req("query", "ApexClass", q))
          /\ IF q = "raise"
             THEN Return(ErrorEnvelope("SalesforceError"))
             ELSE IF upsert_apex_class_decision(q) = "not_found"
                  THEN Return(ErrorEnvelope("Apex class not found"))
                  ELSE /\ pc' = "submit"
                       /\ UNCHANGED response
    /\ UNCHANGED <<service, result, args, documents, calls, tool, name, objname, content, exists, parent,
                   jobCount, dep, elapsed, status, is_update, fls_result>>

\* ------------------------------------------------------------- LWC tools
\* create_lwc_component after its Tooling query answered q; a query that
\* raises is logged and the deploy goes ahead
create_lwc_component_decision(q) ==
    IF q = "found" THEN "exists" ELSE "deploy"

create_lwc_component ==
    /\ pc = "body"
    /\ tool = "create_lwc_component"
    /\ IF ~ValidComponentName(name)
       THEN /\ Return(ErrorEnvelope("Invalid component name"))
            /\ UNCHANGED reqs
       ELSE \E q \in ExistenceAnswers :
               /\ reqs' = Append(reqs, Req("tooling", "LightningComponentBundle", q))
               /\ IF create_lwc_component_decision(q) = "exists"
                  THEN Return(ErrorEnvelope("LWC component already exists"))
                  ELSE /\ pc' = "submit"
                       /\ UNCHANGED response
    /\ UNCHANGED <<service, result, args, documents, calls, tool, name, objname, content, exists, parent,
                   jobCount, dep, elapsed, status, is_update, fls_result>>

\* upsert_lwc_component going on when its Tooling query raises
upsert_lwc_component_decision_FailOpen(q) ==
    IF q = "absent" THEN "not_found" ELSE "fetch"

\* upsert_lwc_component after its Tooling query answered q; it fails closed
\* when the query raises
upsert_lwc_component_decision(q) ==
    CASE q = "absent" -> "not_found"
      [] q = "raise"  -> "unverified"
      [] OTHER        -> "fetch"

\* upsert_lwc_component up to the existence check
upsert_lwc_component ==
    /\ pc = "body"
    /\ tool = "upsert_lwc_component"
    /\ CASE ~ValidComponentName(name) ->
              /\ Return(ErrorEnvelope("Invalid component name"))
              /\ UNCHANGED reqs
         [] ValidComponentName(name) /\ content = "blank_html" ->
              /\ Return(ErrorEnvelope("Missing required file content: html"))
              /\ UNCHANGED reqs
         [] ValidComponentName(name) /\ content = "blank_js" ->
              /\ Return(ErrorEnvelope("Missing required file content: js"))
              /\ UNCHANGED reqs
         [] OTHER ->
              \E q \in ExistenceAnswers :
                 /\ reqs' = Append(reqs, Req("tooling", "LightningComponentBundle", q))
                 /\ CASE upsert_lwc_component_decision(q) = "not_found" ->
                            Return(ErrorEnvelope("Component not found"))
                      [] upsert_lwc_component_decision(q) = "unverified" ->
                            Return(ErrorEnvelope("Unable to verify LWC existence via Tooling API"))
                      [] OTHER -> /\ pc' = "lwc_fetch"
                                  /\ UNCHANGED response
    /\ UNCHANGED <<service, result, args, documents, calls, tool, name, objname, content, exists, parent,
                   jobCount, dep, elapsed, status, is_update, fls_result>>

\* upsert_lwc_component: read the bundle's current resources; a failure is
\* logged and ignored
upsert_lwc_component_fetch ==
    /\ pc = "lwc_fetch"
    /\ \E q \in {"raise", "ok"} :
          reqs' = Append(reqs, Req("tooling", "LightningComponentResource", q))
    /\ pc' = "lwc_apex"
    /\ UNCHANGED <<service, result, args, documents, calls, tool, name, objname, content, exists, parent,
                   jobCount, dep, elapsed, status, is_update, fls_result, response>>

\* answers of the ApexClass query of the import check: it raises, finds no
\* class, finds a class whose body lacks the method name, one whose body
\* lacks @AuraEnabled, or a class that has both
ApexAnswers == {"raise", "absent", "found_without_method", "found_without_AuraEnabled",
                "found"}

\* the check looking for the class only
apex_errors_ClassOnly(a) == a = "absent"

\* apex_errors is not empty: the class is not found, or
\* `method not in body or "@AuraEnabled" not in body`
apex_errors(a) == a \in {"absent", "found_without_method", "found_without_AuraEnabled"}

\* upsert_lwc_component: verify the Apex imports of the JavaScript (the model
\* has one import when content = "apex_import", none otherwise)
upsert_lwc_component_apex_check ==
    /\ pc = "lwc_apex"
    /\ IF content = "apex_import"
       THEN \E a \in ApexAnswers :
               /\ reqs' = Append(reqs, Req("tooling", "ApexClass", a))
               /\ IF apex_errors(a)
                  THEN Return(ErrorEnvelope("Apex reference check failed"))
                  ELSE /\ pc' = "submit"
                       /\ UNCHANGED response
       ELSE /\ pc' = "submit"
            /\ UNCHANGED <<reqs, response>>
    /\ UNCHANGED <<service, result, args, documents, calls, tool, name, objname, content, exists, parent,
                   jobCount, dep, elapsed, status, is_update, fls_result>>

\* ---------------------------------------------------- custom object tool
\* upsert_custom_object up to the deploy: normalise and test the name; no
\* existence query
upsert_custom_object ==
    /\ pc = "body"
    /\ tool = "upsert_custom_object"
    /\ IF ~ValidObjectName(NormalizeCustomObject(name))
       THEN Return(ErrorEnvelope("Invalid object name"))
       ELSE /\ pc' = "submit"
            /\ UNCHANGED response
    /\ UNCHANGED <<service, result, args, documents, calls, tool, name, objname, content, exists, parent, reqs,
                   jobCount, dep, elapsed, status, is_update, fls_result>>

\* ----------------------------------------------------- custom field tool
\* what describe() of the object answers: it raises (also when the object
\* does not exist), or lists the object's fields with or without the field
DescribeAnswers ==
    {"raise"} \cup (IF parent THEN {IF exists THEN "found" ELSE "absent"} ELSE {})

\* field_name: field_api_name with __c appended when missing
field_name == NormalizeFieldName(name)

\* upsert_custom_field._build_field_config, a closure over the arguments
build_field_config ==
    LET cfg == [NoConfig EXCEPT !.fullName = StrV(field_name),
                                !.name = StrV(field_name),
                                !.label = StrV(label),
                                !.type = StrV(<<field_type>>),
                                !.required = BoolV(required),
                                !.description = StrV(description)]
        tp == parse_kv(type_params)
        ft == Lower(field_type)
    IN CASE ft \in {"text", "email", "phone", "url"} ->
              IF ft = "text"
              THEN [cfg EXCEPT !.length = Get(tp, "length", IntV(80))]
              ELSE cfg
         [] ft \in {"longtextarea", "longtext", "textarea"} ->
              [cfg EXCEPT !.type = StrV(<<"LongTextArea">>),
                          !.length = Get(tp, "length", IntV(32768)),
                          !.visibleLines = Get(tp, "visibleLines", IntV(3))]
         [] ft \in {"number", "currency"} ->
              [cfg EXCEPT !.precision = Get(tp, "precision", IntV(18)),
                          !.scale = Get(tp, "scale",
                                        IF ft = "number" THEN IntV(0) ELSE IntV(2)),
                          !.type = IF ft = "currency" THEN StrV(<<"Currency">>)
                                   ELSE StrV(<<"Number">>)]
         [] ft = "checkbox" ->
              [cfg EXCEPT !.defaultValue = Get(tp, "default", BoolV(FALSE)),
                          !.type = StrV(<<"Checkbox">>)]
         [] ft \in {"date", "datetime"} ->
              [cfg EXCEPT !.type = IF ft = "datetime" THEN StrV(<<"DateTime">>)
                                   ELSE StrV(<<"Date">>)]
         [] ft = "picklist" ->
              LET items == PicklistItems(Get(tp, "values", StrV(<<>>))) IN
              [cfg EXCEPT !.picklistValues =
                              ListV([k \in DOMAIN items |-> PicklistValue(items[k])]),
                          !.type = StrV(<<"Picklist">>)]
         [] ft \in {"lookup", "masterdetail", "master-detail"} ->
              LET md == ft \in {"masterdetail", "master-detail"} IN
              [cfg EXCEPT !.type = IF md THEN StrV(<<"MasterDetail">>)
                                   ELSE StrV(<<"Lookup">>),
                          !.referenceTo = Get(tp, "referenceTo", NoneV),
                          !.relationshipName = Get(tp, "relationshipName", NoneV),
                          !.relationshipLabel = Get(tp, "relationshipLabel", StrV(label)),
                          !.required = IF md /\ ~required THEN BoolV(TRUE)
                                       ELSE BoolV(required),
                          !.deleteConstraint = IF md /\ InDict(tp, "deleteConstraint")
                                               THEN Get(tp, "deleteConstraint", NoneV)
                                               ELSE Absent]
         [] OTHER -> cfg

\* upsert_custom_field up to the deploy: normalise and test both names,
\* describe the object, look the field up in the describe, build the field
\* configuration and generate the two documents; a TypeError of a generator
\* reaches the catch-all
upsert_custom_field ==
    /\ pc = "body"
    /\ tool = "upsert_custom_field"
    /\ CASE ~valid_custom_name(field_name) ->
              /\ Return(ErrorEnvelope("Invalid field API name"))
              /\ UNCHANGED <<reqs, is_update, documents>>
         [] /\ valid_custom_name(field_name)
            /\ ~ValidFieldObject(normalize_object_name(objname)) ->
              /\ Return(ErrorEnvelope("Invalid object API name"))
              /\ UNCHANGED <<reqs, is_update, documents>>
         [] OTHER ->
              \E q \in DescribeAnswers :
                 /\ reqs' = Append(reqs, Req("describe", "object", q))
                 /\ IF q = "raise"
                    THEN /\ Return(ErrorEnvelope("Object not found"))
                         /\ UNCHANGED <<is_update, documents>>
                    ELSE LET cfg == build_field_config
                             fx == generate_custom_field_xml(cfg)
                             ox == generate_custom_object_with_field(
                                       normalize_object_name(objname), cfg)
                         IN /\ is_update' = (q = "found")
                            /\ field_config' = cfg
                            /\ field_xml' = IF Raises(fx) THEN NoDocument ELSE fx
                            /\ obj_xml' = IF Raises(fx) \/ Raises(ox)
                                          THEN NoDocument ELSE ox
                            /\ IF Raises(fx) \/ Raises(ox)
                               THEN Return(ErrorEnvelope("TypeError"))
                               ELSE /\ pc' = "submit"
                                    /\ UNCHANGED response
    /\ UNCHANGED <<service, result, args, calls, tool, name, objname, content, exists, parent,
                   jobCount, dep, elapsed, status, fls_result>>

\* the archive the orchestrator hands to the submitter
zip_buffer ==
    CASE tool \in ApexTools -> apex_archive(name)
      [] tool \in LwcTools -> lwc_archive(name, content = "with_css")
      [] tool = "upsert_custom_object" -> object_archive(NormalizeCustomObject(name))
      [] OTHER -> field_archive(normalize_object_name(objname), field_name, obj_xml)

\* ------------------------------------------------------- deploy submitter
\* the check_only argument each orchestrator passes to the submitter
check_only(t) == FALSE

\* the submitter without its test of the response's id
SubmitRaises_NoIdTest(o) == o \in {"transport_error", "http_error"}

\* the submitter raises: requests.post raised, raise_for_status() raised,
\* or the response body has no id
SubmitRaises(o) == o \in {"transport_error", "http_error", "no_id"}

SubmitError(o) ==
    CASE o = "transport_error" -> "ConnectionError"
      [] o = "http_error"      -> "HTTPError"
      [] OTHER                 -> "Deploy response missing id"

\* _execute_metadata_rest_deploy_multipart, and the propagation of its
\* exception to the handler's catch-all
execute_metadata_rest_deploy_multipart ==
    /\ pc = "submit"
    /\ \E o \in SubmitResponses :
          LET id == IF o = "ok" THEN jobCount + 1 ELSE 0 IN
          /\ reqs' = Append(reqs, DeployReq(check_only(tool), id, o, zip_buffer))
          /\ jobCount' = IF o = "ok" THEN jobCount + 1 ELSE jobCount
          /\ IF SubmitRaises(o)
             THEN /\ Return(ErrorEnvelope(SubmitError(o)))
                  /\ UNCHANGED dep
             ELSE /\ dep' = id
                  /\ pc' = "poll"
                  /\ UNCHANGED response
    /\ UNCHANGED <<service, result, args, documents, calls, tool, name, objname, content, exists, parent,
                   elapsed, status, is_update, fls_result>>

\* ---------------------------------------------------------- deploy poller
\* if time.time() - start > timeout_seconds
TimedOut(e) == e > timeout_seconds

\* the poller raising on timeout instead of returning
TimeoutOutcome_Raises == Raised("TimeoutError")

\* {"success": False, "status": "Timeout"}
TimeoutOutcome ==
    [NoStatus EXCEPT !.returned = TRUE, !.status = "Timeout"]

\* the poller comparing the status with lower-case literals
PollOutcome_LowerCase(res) ==
    [returned |-> TRUE, raised |-> FALSE, exc |-> "",
     success |-> res.status \in {"succeeded", "succeededpartial"},
     status |-> res.status,
     details |-> res.details]

\* the poller keeping the status of the result and dropping its details
PollOutcome_NoDetails(res) ==
    [returned |-> TRUE, raised |-> FALSE, exc |-> "",
     success |-> res.status \in {"Succeeded", "SucceededPartial"},
     status |-> res.status,
     details |-> NoDetails]

\* the poller's return value for a deployResult with done = true
PollOutcome(res) ==
    [returned |-> TRUE, raised |-> FALSE, exc |-> "",
     success |-> res.status \in {"Succeeded", "SucceededPartial"},
     status |-> res.status,
     details |-> res.details]

\* how the log names a body: by the done it carries
Answered(r) == IF r.done THEN "done" ELSE "nondone"

\* the poller ending on a terminal status whatever done says
is_done_ByStatus(r) == r.done \/ r.status \in TerminalStatuses

\* result.get("done")
is_done(r) == r.done

\* one pass of the poller's loop up to its sleep: the timeout test, the
\* status request, the test of done; result is a local of the poller, gone
\* when it returns
poll_metadata_rest_deploy_status ==
    /\ pc = "poll"
    /\ IF TimedOut(elapsed)
       THEN /\ status' = TimeoutOutcome
            /\ pc' = "polled"
            /\ result' = NoResult
            /\ UNCHANGED <<reqs, elapsed>>
       ELSE \E r \in StatusResponses, d \in 0..MaxRequestTime :
               /\ elapsed' = elapsed + d
               /\ CASE r.kind = "transport_error" ->
                          /\ reqs' = Append(reqs, StatusReq(dep, r.kind, "", NoDetails))
                          /\ status' = Raised("ConnectionError")
                          /\ pc' = "polled"
                          /\ result' = NoResult
                    [] r.kind = "http_error" ->
                          /\ reqs' = Append(reqs, StatusReq(dep, r.kind, "", NoDetails))
                          /\ status' = Raised("HTTPError")
                          /\ pc' = "polled"
                          /\ result' = NoResult
                    [] r.kind = "ok" /\ is_done(r) /\ ~r.has_status ->
                          /\ reqs' = Append(reqs, StatusReq(dep, Answered(r), "", NoDetails))
                          /\ status' = Raised("KeyError")
                          /\ pc' = "polled"
                          /\ result' = NoResult
                    [] r.kind = "ok" /\ is_done(r) /\ r.has_status ->
                          /\ reqs' = Append(reqs, StatusReq(dep, Answered(r), r.status, r.details))
                          /\ status' = PollOutcome(r)
                          /\ pc' = "polled"
                          /\ result' = NoResult
                    [] OTHER ->
                          /\ reqs' = Append(reqs, StatusReq(dep, "nondone", "", NoDetails))
                          /\ pc' = "sleep"
                          /\ result' = r
                          /\ UNCHANGED status
    /\ UNCHANGED <<service, args, documents, calls, tool, name, objname, content, exists, parent,
                   jobCount, dep, is_update, fls_result, response>>

\* the poller sleeping two intervals
poll_sleep_Twice ==
    /\ pc = "sleep"
    /\ elapsed' = elapsed + 2 * interval_seconds
    /\ pc' = "poll"
    /\ UNCHANGED <<service, result, args, documents, calls, tool, name, objname, content, exists, parent, reqs,
                   jobCount, dep, status, is_update, fls_result, response>>

\* time.sleep(interval_seconds)
poll_sleep ==
    /\ pc = "sleep"
    /\ elapsed' = elapsed + interval_seconds
    /\ pc' = "poll"
    /\ UNCHANGED <<service, result, args, documents, calls, tool, name, objname, content, exists, parent, reqs,
                   jobCount, dep, status, is_update, fls_result, response>>

\* ------------------------------------------------- after the poll: Apex, LWC
OperationOf(t) ==
    CASE t = "create_apex_class"    -> "create_apex_class"
      [] t = "upsert_apex_class"    -> "update_apex_class"
      [] t = "create_lwc_component" -> "create_lwc_component"
      [] OTHER                      -> "update_lwc_component"

\* the envelope reporting a failure without its diagnostics
deploy_envelope_NoErrors(op, st, id) ==
    [BaseEnvelope EXCEPT
        !.success = st.success,
        !.operation = op,
        !.job_id = id,
        !.message = IF st.success THEN "Successfully deployed" ELSE "Failed to deploy"]

\* the envelope copying the details whatever the outcome
deploy_envelope_AlwaysErrors(op, st, id) ==
    [BaseEnvelope EXCEPT
        !.success = st.success,
        !.operation = op,
        !.job_id = id,
        !.message = IF st.success THEN "Successfully deployed" ELSE "Failed to deploy",
        !.errors = st.details]

\* the envelope create/upsert_apex_class and create/upsert_lwc_component
\* build from the result of deploy_*_internal (the poller's value plus job_id)
deploy_envelope(op, st, id) ==
    [BaseEnvelope EXCEPT
        !.success = st.success,
        !.operation = op,
        !.job_id = id,
        !.message = IF st.success THEN "Successfully deployed" ELSE "Failed to deploy",
        !.errors = IF ~st.success THEN st.details ELSE NoDetails]

\* the orchestrator submitting the archive again after a poll that timed out
deploy_internal_return_RetryOnTimeout ==
    /\ pc = "polled"
    /\ tool \in ApexTools \cup LwcTools
    /\ IF status.raised
       THEN Return(ErrorEnvelope(status.exc))
       ELSE IF status.status = "Timeout"
            THEN pc' = "submit" /\ UNCHANGED response
            ELSE Return(deploy_envelope(OperationOf(tool), status, dep))
    /\ elapsed' = 0
    /\ UNCHANGED <<service, result, args, documents, calls, tool, name, objname, content, exists, parent, reqs,
                   jobCount, dep, status, is_update, fls_result>>

\* success_flag of deploy_apex_class_internal / deploy_lwc_component_internal;
\* the functions assign it and never read it
success_flag(st) == Lower(st.status) = "succeeded"

\* deploy_apex_class_internal / deploy_lwc_component_internal return the
\* poller's outcome with the job id added, and the orchestrator answers; an
\* exception of the poller reaches the catch-all
deploy_internal_return ==
    /\ pc = "polled"
    /\ tool \in ApexTools \cup LwcTools
    /\ IF status.raised
       THEN Return(ErrorEnvelope(status.exc))
       ELSE Return(deploy_envelope(OperationOf(tool), status, dep))
    /\ elapsed' = 0
    /\ UNCHANGED <<service, result, args, documents, calls, tool, name, objname, content, exists, parent, reqs,
                   jobCount, dep, status, is_update, fls_result>>

\* ---------------------------------------------- after the poll: custom object
object_envelope(st, id) ==
    [BaseEnvelope EXCEPT
        !.success = st.success,
        !.job_id = id,
        !.status = st.status,
        !.details = st.details]

upsert_custom_object_return ==
    /\ pc = "polled"
    /\ tool = "upsert_custom_object"
    /\ IF status.raised
       THEN Return(ErrorEnvelope(status.exc))
       ELSE Return(object_envelope(status, dep))
    /\ elapsed' = 0
    /\ UNCHANGED <<service, result, args, documents, calls, tool, name, objname, content, exists, parent, reqs,
                   jobCount, dep, status, is_update, fls_result>>

\* ----------------------------------------------- after the poll: custom field
\* the operation name chosen without regard to the describe
field_operation_AlwaysCreate(upd) == "create_custom_field"

field_operation(upd) == IF upd THEN "update_custom_field" ELSE "create_custom_field"

\* the short-circuit on a deploy that did not succeed
field_failure_envelope(op, st, id) ==
    [BaseEnvelope EXCEPT
        !.operation = op,
        !.job_id = id,
        !.message = "Field deployment failed",
        !.errors = st.details,
        !.field_name = field_name]

\* a failure of the grant handled like a failure of the whole call
fls_error_envelope_Fatal(op, id, fls) == ErrorEnvelope("FLS grant failed")

\* the answer when a step of the permission grant raised
fls_error_envelope(op, id, fls) ==
    [BaseEnvelope EXCEPT
        !.success = TRUE,
        !.operation = op,
        !.job_id = id,
        !.message = "Field deployed, but FLS grant step encountered an error",
        !.has_fls = TRUE,
        !.fls_grant = fls,
        !.field_name = field_name]

\* the success answer naming the field as the caller wrote it
field_success_envelope_RawName(op, id, fls) ==
    [BaseEnvelope EXCEPT
        !.success = TRUE,
        !.operation = op,
        !.job_id = id,
        !.message = "Successfully deployed field and granted read/edit",
        !.has_fls = TRUE,
        !.fls_grant = fls,
        !.field_name = name]

\* the answer when the deploy and the permission grant both went through
field_success_envelope(op, id, fls) ==
    [BaseEnvelope EXCEPT
        !.success = TRUE,
        !.operation = op,
        !.job_id = id,
        !.message = "Successfully deployed field and granted read/edit",
        !.has_fls = TRUE,
        !.fls_grant = fls,
        !.field_name = field_name]

\* the short-circuit taken on a timeout only
deploy_failed_OnlyTimeout(st) == st.status = "Timeout"

\* if not final_status.get("success")
deploy_failed(st) == ~st.success

\* upsert_custom_field after the poll: an exception of the poller reaches
\* the catch-all, a deploy that did not succeed is answered at once, and
\* else the permission grant starts
upsert_custom_field_after_poll ==
    /\ pc = "polled"
    /\ tool = "upsert_custom_field"
    /\ CASE status.raised -> Return(ErrorEnvelope(status.exc))
         [] ~status.raised /\ deploy_failed(status) ->
               Return(field_failure_envelope(field_operation(is_update), status, dep))
         [] OTHER -> /\ pc' = "fls_ps"
                     /\ UNCHANGED response
    /\ elapsed' = 0
    /\ UNCHANGED <<service, result, args, documents, calls, tool, name, objname, content, exists, parent, reqs,
                   jobCount, dep, status, is_update, fls_result>>

\* step 1 of the grant: find the permission set, create it when absent
PermissionSetOutcomes ==
    { [log |-> <<Req("query", "PermissionSet", "raise")>>, ok |-> FALSE],
      [log |-> <<Req("query", "PermissionSet", "found")>>, ok |-> TRUE],
      [log |-> <<Req("query", "PermissionSet", "absent"),
                 Req("create", "PermissionSet", "raise")>>, ok |-> FALSE],
      [log |-> <<Req("query", "PermissionSet", "absent"),
                 Req("create", "PermissionSet", "ok")>>, ok |-> TRUE] }

fls_permission_set ==
    /\ pc = "fls_ps"
    /\ \E o \in PermissionSetOutcomes :
          /\ reqs' = reqs \o o.log
          /\ IF o.ok
             THEN /\ fls_result' = [fls_result EXCEPT !.permission_set_id = TRUE]
                  /\ pc' = "fls_me"
                  /\ UNCHANGED response
             ELSE /\ Return(fls_error_envelope(field_operation(is_update), dep, fls_result))
                  /\ UNCHANGED fls_result
    /\ UNCHANGED <<service, result, args, documents, calls, tool, name, objname, content, exists, parent,
                   jobCount, dep, elapsed, status, is_update>>

\* step 2: the current user, by the chatter endpoint or else by a User query
MeOutcomes ==
    { [log |-> <<Req("restful", "chatter/users/me", "ok")>>, me |-> TRUE, ok |-> TRUE],
      [log |-> <<Req("restful", "chatter/users/me", "raise"),
                 Req("query", "User", "raise")>>, me |-> FALSE, ok |-> FALSE],
      [log |-> <<Req("restful", "chatter/users/me", "raise"),
                 Req("query", "User", "absent")>>, me |-> FALSE, ok |-> TRUE],
      [log |-> <<Req("restful", "chatter/users/me", "raise"),
                 Req("query", "User", "found")>>, me |-> TRUE, ok |-> TRUE] }

\* step 3: assign the permission set to the user unless already assigned
AssignOutcomes ==
    { [log |-> <<Req("query", "PermissionSetAssignment", "raise")>>, ok |-> FALSE],
      [log |-> <<Req("query", "PermissionSetAssignment", "found")>>, ok |-> TRUE],
      [log |-> <<Req("query", "PermissionSetAssignment", "absent"),
                 Req("create", "PermissionSetAssignment", "raise")>>, ok |-> FALSE],
      [log |-> <<Req("query", "PermissionSetAssignment", "absent"),
                 Req("create", "PermissionSetAssignment", "ok")>>, ok |-> TRUE] }

fls_assign ==
    /\ pc = "fls_me"
    /\ \E m \in MeOutcomes :
          \E a \in (IF m.ok /\ m.me THEN AssignOutcomes
                    ELSE {[log |-> <<>>, ok |-> m.ok]}) :
             /\ reqs' = reqs \o m.log \o a.log
             /\ IF a.ok
                THEN /\ fls_result' = [fls_result EXCEPT !.assigned_to_me = m.me]
                     /\ pc' = "fls_fp"
                     /\ UNCHANGED response
                ELSE /\ Return(fls_error_envelope(field_operation(is_update), dep, fls_result))
                     /\ UNCHANGED fls_result
    /\ UNCHANGED <<service, result, args, documents, calls, tool, name, objname, content, exists, parent,
                   jobCount, dep, elapsed, status, is_update>>

\* step 4: create the FieldPermissions record, or update the one found
FieldPermissionsOutcomes ==
    { [log |-> <<Req("query", "FieldPermissions", "raise")>>, ok |-> FALSE],
      [log |-> <<Req("query", "FieldPermissions", "absent"),
                 Req("create", "FieldPermissions", "raise")>>, ok |-> FALSE],
      [log |-> <<Req("query", "FieldPermissions", "absent"),
                 Req("create", "FieldPermissions", "ok")>>, ok |-> TRUE],
      [log |-> <<Req("query", "FieldPermissions", "found"),
                 Req("update", "FieldPermissions", "raise")>>, ok |-> FALSE],
      [log |-> <<Req("query", "FieldPermissions", "found"),
                 Req("update", "FieldPermissions", "ok")>>, ok |-> TRUE] }

fls_field_permissions ==
    /\ pc = "fls_fp"
    /\ \E o \in FieldPermissionsOutcomes :
          /\ reqs' = reqs \o o.log
          /\ IF o.ok
             THEN /\ fls_result' = [fls_result EXCEPT !.field_permissions_id = TRUE]
                  /\ Return(field_success_envelope(field_operation(is_update), dep,
                                                   fls_result'))
             ELSE /\ Return(fls_error_envelope(field_operation(is_update), dep, fls_result))
                  /\ UNCHANGED fls_result
    /\ UNCHANGED <<service, result, args, documents, calls, tool, name, objname, content, exists, parent,
                   jobCount, dep, elapsed, status, is_update>>

\* -------------------------------------------------------- specification
Next ==
    \/ Invoke
    \/ InvokeArguments
    \/ get_salesforce_connection
    \/ create_apex_class
    \/ upsert_apex_class
    \/ create_lwc_component
    \/ upsert_lwc_component
    \/ upsert_lwc_component_fetch
    \/ upsert_lwc_component_apex_check
    \/ upsert_custom_object
    \/ upsert_custom_field
    \/ execute_metadata_rest_deploy_multipart
    \/ poll_metadata_rest_deploy_status
    \/ poll_sleep
    \/ deploy_internal_return
    \/ upsert_custom_object_return
    \/ upsert_custom_field_after_poll
    \/ fls_permission_set
    \/ fls_assign
    \/ fls_field_permissions

Spec == Init /\ [][Next]_vars

\* ------------------------------------ specification of the field documents
\* The field configuration builder and the two generators applied to
\* bounded arguments of upsert_custom_field.
FieldTypes == {"Text", "text", "Email", "LongTextArea", "Number", "Currency",
               "Percent", "Checkbox", "Date", "Picklist", "MultiselectPicklist",
               "Lookup", "MasterDetail", "master-detail"}

TypeParams ==
    { <<>>,
      <<"length", "=", "255">>,
      <<"length", "=", "255", ";", "visibleLines", "=", "5">>,
      <<"precision", "=", "18", ";", "scale", "=", "2">>,
      <<"default", "=", "true">>,
      <<"values", "=", "A", "|", "B">>,
      <<"values", "=", "A", ",", "B">>,
      <<"values", "=", "1">>,
      <<"referenceTo", "=", "Account", ";", "relationshipName", "=", "Rel">>,
      <<"referenceTo", "=", "Account", ";", "relationshipName", "=", "Rel", ";",
        "deleteConstraint", "=", "Cascade">>,
      <<"referenceTo", "=", "5">> }

\* a value for each type-specific key, for configurations that hold keys
\* their type does not use
SampleValue(key) ==
    CASE key \in {"length", "precision"} -> IntV(18)
      [] key \in {"visibleLines", "scale"} -> IntV(2)
      [] key = "defaultValue" -> BoolV(TRUE)
      [] key = "picklistValues" -> ListV(<<PicklistValue(<<"A">>)>>)
      [] key = "referenceTo" -> StrV(<<"Account">>)
      [] key = "deleteConstraint" -> StrV(<<"Cascade">>)
      [] OTHER -> StrV(<<"Rel">>)

TypeSpecificKeys == {"length", "visibleLines", "precision", "scale", "defaultValue",
                     "picklistValues", "referenceTo", "relationshipName",
                     "relationshipLabel", "deleteConstraint"}

ExtraKeySets ==
    ((SUBSET {"length", "precision", "picklistValues", "referenceTo"}) \ {{}})
    \cup {TypeSpecificKeys}

\* cfg with the keys of extra set to their sample values
Overlay(cfg, extra) ==
    [key \in DOMAIN cfg |-> IF key \in extra THEN SampleValue(key) ELSE cfg[key]]

GenInit ==
    /\ calls = 0
    /\ tool = "upsert_custom_field"
    /\ name = <<"A", "b">>
    /\ objname \in {<<"C", "a", "s", "e">>, <<"O", "b">>}
    /\ content = "plain"
    /\ exists = FALSE
    /\ parent = TRUE
    /\ pc = "build"
    /\ reqs = <<>>
    /\ jobCount = 0
    /\ dep = 0
    /\ elapsed = 0
    /\ status = NoStatus
    /\ is_update = FALSE
    /\ fls_result = NoFls
    /\ response = NoResponse
    /\ field_type \in FieldTypes
    /\ type_params \in TypeParams
    /\ required \in BOOLEAN
    /\ description \in {<<>>, <<"d">>}
    /\ field_config = NoConfig
    /\ field_xml = NoDocument
    /\ obj_xml = NoDocument
    /\ result = NoResult
    /\ IdleService

workflow == <<calls, tool, name, objname, content, exists, parent, reqs, jobCount,
              dep, elapsed, status, is_update, fls_result, response>>

\* field_config = _build_field_config()
gen_build_field_config ==
    /\ pc = "build"
    /\ field_config' = build_field_config
    /\ pc' = "config"
    /\ UNCHANGED <<service, result, workflow, args, field_xml, obj_xml>>

\* a caller of the generators whose configuration holds further keys
gen_extra_keys ==
    /\ pc = "config"
    /\ \E extra \in ExtraKeySets : field_config' = Overlay(field_config, extra)
    /\ pc' = "config_extra"
    /\ UNCHANGED <<service, result, workflow, args, field_xml, obj_xml>>

\* field_xml = _generate_custom_field_xml(field_config)
gen_generate_custom_field_xml ==
    /\ pc \in {"config", "config_extra"}
    /\ LET fx == generate_custom_field_xml(field_config) IN
          IF Raises(fx)
          THEN pc' = "raised" /\ UNCHANGED field_xml
          ELSE pc' = "field_xml" /\ field_xml' = fx
    /\ UNCHANGED <<service, result, workflow, args, field_config, obj_xml>>

\* obj_xml = _generate_custom_object_with_field(object_name, field_config)
gen_generate_custom_object_with_field ==
    /\ pc = "field_xml"
    /\ LET ox == generate_custom_object_with_field(normalize_object_name(objname),
                                                   field_config) IN
          IF Raises(ox)
          THEN pc' = "raised" /\ UNCHANGED obj_xml
          ELSE pc' = "obj_xml" /\ obj_xml' = ox
    /\ UNCHANGED <<service, result, workflow, args, field_config, field_xml>>

GenNext ==
    \/ gen_build_field_config
    \/ gen_extra_keys
    \/ gen_generate_custom_field_xml
    \/ gen_generate_custom_object_with_field

GenSpec == GenInit /\ [][GenNext]_vars

\* ------------------------------------------ specification of the read tools
\* get_metadata_deploy_status and fetch_object_metadata, called after an
\* orchestrator submitted job 1 and returned.
MaxReads == 2

ReadTools == {"get_metadata_deploy_status", "fetch_object_metadata"}

\* what the platform may hold for a job: an unfinished job, a finished one
\* with its details, or a document without status
JobResults ==
    {r \in StatusResponses :
        /\ r.kind = "ok"
        /\ \/ ~r.done /\ r.status \in {"InProgress", "Succeeded"}
           \/ r.done /\ r.details.present
           \/ r.done /\ ~r.has_status}

\* what the poller of that orchestrator may have returned
PollerOutcomes ==
    {TimeoutOutcome} \cup {PollOutcome(r) : r \in {j \in JobResults : j.done /\ j.has_status}}

\* create_apex_class('Ab', ...) has submitted job 1, its poller has timed
\* out or has seen the job end, and it has answered; the platform holds a
\* deployResult for the job (the one the poller saw if it saw the job end)
ReadInit ==
    /\ calls = 0
    /\ tool = "create_apex_class"
    /\ name = <<"A", "b">>
    /\ objname = <<>>
    /\ content = "plain"
    /\ exists = TRUE
    /\ parent = TRUE
    /\ pc = "ready"
    /\ reqs = <<>>
    /\ jobCount = 1
    /\ dep = 1
    /\ elapsed = 0
    /\ status \in PollerOutcomes
    /\ job \in {r \in JobResults :
                   \/ status = TimeoutOutcome
                   \/ r.done /\ r.has_status /\ status = PollOutcome(r)}
    /\ response = deploy_envelope(OperationOf(tool), status, dep)
    /\ is_update = FALSE
    /\ fls_result = NoFls
    /\ field_type = ""
    /\ type_params = <<>>
    /\ required = FALSE
    /\ description = <<>>
    /\ field_config = NoConfig
    /\ field_xml = NoDocument
    /\ obj_xml = NoDocument
    /\ result = NoResult
    /\ job_id = 0
    /\ include_details = TRUE
    /\ status_calls = <<>>
    /\ local = [t \in Threads |-> 0]
    /\ connections = <<>>
    /\ tpc = [t \in Threads |-> "idle"]
    /\ got = [t \in Threads |-> NoConnection]
    /\ first = [t \in Threads |-> 0]
    /\ NoSessions
    /\ IdleRunner

\* the variables the read tools leave alone
orchestration == <<objname, content, exists, parent, jobCount, dep, elapsed, status,
                   is_update, fls_result, args, documents, cache, oauth, runner>>

\* a read tool returns envelope e
ReadReturn(e) ==
    /\ response' = e
    /\ pc' = "ready"

\* A caller invokes a read tool: job_id 2 names no job of the platform.
read_invoke ==
    /\ pc \in {"ready", "escaped"}
    /\ calls < MaxReads
    /\ calls' = calls + 1
    /\ tool' \in ReadTools
    /\ IF tool' = "get_metadata_deploy_status"
       THEN /\ job_id' \in {1, 2}
            /\ include_details' \in BOOLEAN
            /\ name' = <<>>
       ELSE /\ name' \in {<<"C", "a", "s", "e">>, <<"O", "b", "_", "_", "c">>}
            /\ UNCHANGED <<job_id, include_details>>
    /\ reqs' = <<>>
    /\ response' = NoResponse
    /\ result' = NoResult
    /\ pc' = "r_conn"
    /\ UNCHANGED <<orchestration, job, status_calls>>

\* the platform works on the job: a job that is not done moves on
remote_job_advance ==
    /\ pc = "ready"
    /\ ~job.done
    /\ job' \in {r \in JobResults : r.done}
    /\ UNCHANGED <<orchestration, calls, tool, name, pc, reqs, response, result,
                   job_id, include_details, status_calls>>

\* {"success": False, "error": str(e), "job_id": job_id}
status_error_envelope(text, id) == [ErrorEnvelope(text) EXCEPT !.job_id = id]

\* the tool reporting success of every deployResult that names no failure
status_envelope_NoFailure(res) ==
    [BaseEnvelope EXCEPT !.success = res.status \notin {"Failed", "Canceled"},
                         !.status = res.status,
                         !.details = res.details]

\* {"success": ..., "status": ..., "details": ...} of a deployResult
status_envelope(res) ==
    [BaseEnvelope EXCEPT !.success = res.status \in {"Succeeded", "SucceededPartial"},
                         !.status = res.status,
                         !.details = res.details]

\* sf = get_salesforce_connection() in a read tool: an exception reaches
\* the tool's except clause
read_connection ==
    /\ pc = "r_conn"
    /\ \/ /\ pc' = IF tool = "get_metadata_deploy_status" THEN "r_status" ELSE "r_describe"
          /\ UNCHANGED <<response, status_calls>>
       \/ /\ tool = "get_metadata_deploy_status"
          /\ ReadReturn(status_error_envelope("No active Salesforce sessions found", job_id))
          /\ status_calls' = Append(status_calls,
                 [job_id |-> job_id, include_details |-> include_details, job |-> job,
                  answered |-> FALSE, response |-> response'])
       \/ /\ tool = "fetch_object_metadata"
          /\ ReadReturn(ErrorEnvelope("not found"))
          /\ UNCHANGED status_calls
    /\ UNCHANGED <<orchestration, calls, tool, name, reqs, result, job, job_id,
                   include_details>>

\* the tool asking for the job submitted last instead of the one named
status_target_Submitted(id) == dep

\* f"{sf.base_url}metadata/deployRequest/{job_id}{q}"
status_target(id) == id

\* what the platform answers for job 1: the deployResult it holds, without
\* the details unless includeDetails=true is asked for
DeployResultOf(j, details) == IF details THEN j ELSE [j EXCEPT !.details = NoDetails]

\* get_metadata_deploy_status after the connection: the GET, raise_for_status
\* and the envelope
get_metadata_deploy_status ==
    /\ pc = "r_status"
    /\ \E k \in {"transport_error", "http_error"} \cup
                 (IF status_target(job_id) = 1 THEN {"ok"} ELSE {}) :
          /\ result' = IF k = "ok" THEN DeployResultOf(job, include_details) ELSE NoResult
          /\ reqs' = Append(reqs,
                 StatusReq(status_target(job_id), k, result'.status, result'.details))
          /\ ReadReturn(IF k = "ok" THEN status_envelope(result')
                        ELSE status_error_envelope(k, job_id))
          /\ status_calls' = Append(status_calls,
                 [job_id |-> job_id, include_details |-> include_details, job |-> job,
                  answered |-> k = "ok", response |-> response'])
    /\ UNCHANGED <<orchestration, calls, tool, name, job, job_id, include_details>>

\* what describe() of the object answers: it raises (also for an object
\* the org does not have), or returns a document that holds label, custom
\* and fields with name, label and type in each field, or one that lacks
\* one of these keys
FetchDescribeAnswers == {"raise", "complete", "incomplete"}

\* fetch_object_metadata, its first try block: the connection is there,
\* describe() is called; what follows the block is outside any try, so a
\* KeyError of desc[...] or f[...] leaves the tool
fetch_object_metadata ==
    /\ pc = "r_describe"
    /\ \E a \in FetchDescribeAnswers :
          /\ reqs' = Append(reqs, Req("describe", "object", a))
          /\ CASE a = "raise" -> ReadReturn(ErrorEnvelope("not found"))
               [] a = "complete" -> pc' = "r_record_types" /\ UNCHANGED response
               [] OTHER -> pc' = "escaped" /\ UNCHANGED response
    /\ UNCHANGED <<orchestration, calls, tool, name, result, reader>>

\* {"success": True, "objectName": ..., "fields": ..., "recordTypes": ...}
metadata_envelope == [BaseEnvelope EXCEPT !.success = TRUE]

\* fetch_object_metadata, its second try block: the RecordType query, whose
\* failure is passed over
fetch_object_metadata_record_types ==
    /\ pc = "r_record_types"
    /\ \E a \in {"raise", "ok"} :
          reqs' = Append(reqs, Req("query", "RecordType", a))
    /\ ReadReturn(metadata_envelope)
    /\ UNCHANGED <<orchestration, calls, tool, name, result, reader>>

ReadNext ==
    \/ read_invoke
    \/ remote_job_advance
    \/ read_connection
    \/ get_metadata_deploy_status
    \/ fetch_object_metadata
    \/ fetch_object_metadata_record_types

ReadSpec == ReadInit /\ [][ReadNext]_vars

\* ------------------------------------------- specification of all the tools
\* the orchestrators from the state after construction, and the read tools
\* after a submission
ToolInit == Init \/ ReadInit

ToolNext == Next \/ ReadNext

ToolSpec == ToolInit /\ [][ToolNext]_vars

\* --------------------- specification of the sessions and the connection cache
\* the OAuth tools, the callback server and get_salesforce_connection, called
\* by the threads while time passes
MaxConnections == 2

MaxTicks == 1

MaxTokens == 3

MaxLogins == 2

MaxCallbacks == 2

MaxRefreshes == 1

\* the seconds between two readings of the clock
TickSeconds == 6000

\* if token_age > 5400
RefreshAge == 5400

\* the user ids the token endpoint answers with
Users == {"u1", "u2"}

\* user_id = None
NoUser == ""

\* the user_id arguments of the calls
RequestedUsers == {NoUser, "u2"}

\* secrets.token_urlsafe(16): a value not generated before, one per login
States == <<"s1", "s2", "s3", "s4">>

\* the state parameter of a request to the callback server: one a login
\* generated, the word error, or anything else
CallbackStates == {States[i] : i \in 1..loginCount} \cup {"error", "forged"}

\* the orders in which the users may have logged in
UserOrders == {<<>>, <<"u1">>, <<"u2">>, <<"u1", "u2">>, <<"u2", "u1">>}

\* the sessions that successful logins of the users us, called one after
\* the other by thread t1, have left; rs tells which of them received a
\* refresh token
SessionsAfter(us, rs) ==
    /\ oauth_tokens = [i \in 1..Len(us) |->
                          [user_id |-> us[i], access_token |-> i,
                           refresh_token |-> rs[i], login_timestamp |-> 0]]
    /\ oauth_callback_data = {}
    /\ callbacks = {[kind |-> "code", state |-> States[i]] : i \in 1..Len(us)}
    /\ access_tokens = [i \in 1..Len(us) |-> [user |-> us[i], at |-> 0]]
    /\ now = 0
    /\ login = [t \in Threads |->
                   IF t = "t1" /\ us # <<>>
                   THEN [state |-> States[Len(us)], popped |-> States[Len(us)],
                         result |-> "Login successful"]
                   ELSE NoLogin]
    /\ loginCount = Len(us)
    /\ refreshed = NoRefresh

\* the threads are idle and the users have logged in
ConnInit ==
    /\ IdleTool
    /\ IdleCache
    /\ IdleRunner
    /\ \E us \in UserOrders, rs \in [1..2 -> BOOLEAN] : SessionsAfter(us, rs)

\* the variables the connection cache and the OAuth tools leave alone
invocation == <<workflow, pc, args, documents, result, reader, runner>>

\* one sf_connection attribute shared by all the threads
slot_Shared(t) == "t1"

\* local = threading.local(): the attribute of the calling thread
slot(t) == t

\* user_id in _oauth_tokens
HasToken(tokens, u) == \E i \in DOMAIN tokens : tokens[i].user_id = u

\* the place of the user's entry in the dictionary
TokenIdx(tokens, u) == CHOOSE i \in DOMAIN tokens : tokens[i].user_id = u

\* _oauth_tokens[user_id] = {...}: a known key keeps its place, a new one
\* goes last
StoreToken(tokens, e) ==
    IF HasToken(tokens, e.user_id)
    THEN [tokens EXCEPT ![TokenIdx(tokens, e.user_id)] = e]
    ELSE Append(tokens, e)

\* what the token endpoint does with a refresh request
RefreshAnswers == {"ok", "fail"}

\* a refresh that stamps the entry before it sends the request
refresh_salesforce_token_StampFirst(u, answer) ==
    IF ~HasToken(oauth_tokens, u)
    THEN [ok |-> FALSE, tokens |-> oauth_tokens]
    ELSE LET i == TokenIdx(oauth_tokens, u) IN
         IF ~oauth_tokens[i].refresh_token
         THEN [ok |-> FALSE, tokens |-> oauth_tokens]
         ELSE IF answer # "ok"
         THEN [ok |-> FALSE,
               tokens |-> [oauth_tokens EXCEPT ![i].login_timestamp = now]]
         ELSE [ok |-> TRUE,
               tokens |-> [oauth_tokens EXCEPT
                             ![i].access_token = Len(access_tokens) + 1,
                             ![i].login_timestamp = now]]

\* refresh_salesforce_token: its return value and the dictionary it leaves
refresh_salesforce_token(u, answer) ==
    IF ~HasToken(oauth_tokens, u)
    THEN [ok |-> FALSE, tokens |-> oauth_tokens]
    ELSE LET i == TokenIdx(oauth_tokens, u) IN
         IF ~oauth_tokens[i].refresh_token
         THEN [ok |-> FALSE, tokens |-> oauth_tokens]
         ELSE IF answer # "ok"
         THEN [ok |-> FALSE, tokens |-> oauth_tokens]
         ELSE [ok |-> TRUE,
               tokens |-> [oauth_tokens EXCEPT
                             ![i].access_token = Len(access_tokens) + 1,
                             ![i].login_timestamp = now]]

\* one call of refresh_salesforce_token and the token the endpoint issued
refresh_call(u, answer) ==
    LET r == refresh_salesforce_token(u, answer) IN
    /\ refreshed.calls < MaxRefreshes
    /\ r.ok => Len(access_tokens) < MaxTokens
    /\ oauth_tokens' = r.tokens
    /\ access_tokens' = IF r.ok
                        THEN Append(access_tokens, [user |-> u, at |-> now])
                        ELSE access_tokens
    /\ refreshed' = [calls |-> refreshed.calls + 1, user_id |-> u, ok |-> r.ok]

\* refresh_salesforce_token called on its own
refresh_salesforce_token_direct ==
    /\ \E u \in Users, answer \in RefreshAnswers : refresh_call(u, answer)
    /\ UNCHANGED <<invocation, cache, oauth_callback_data, callbacks, now,
                   login, loginCount>>

\* the clock moves on
time_passes ==
    /\ now < MaxTicks
    /\ now' = now + 1
    /\ UNCHANGED <<invocation, cache, oauth_tokens, oauth_callback_data,
                   callbacks, access_tokens, login, loginCount, refreshed>>

\* get_salesforce_connection, the test of line 30 and, when the attribute
\* is set, the return of line 70
get_salesforce_connection_cached(t) ==
    /\ tpc[t] = "idle"
    /\ \E u \in RequestedUsers :
          IF local[slot(t)] # 0
          THEN /\ got' = [got EXCEPT ![t] = [conn |-> local[slot(t)],
                                             cached |-> TRUE,
                                             user_id |-> u, error |-> ""]]
               /\ UNCHANGED tpc
          ELSE /\ got' = [got EXCEPT ![t] = [NoConnection EXCEPT !.user_id = u]]
               /\ tpc' = [tpc EXCEPT ![t] = "create"]
    /\ UNCHANGED <<invocation, local, connections, first, oauth>>

\* Salesforce(instance_url, session_id) assigned to the attribute and
\* returned
connect(t, e) ==
    /\ Len(connections) < MaxConnections
    /\ connections' = Append(connections, [by |-> t, user |-> e.user_id,
                                           session_id |-> e.access_token])
    /\ local' = [local EXCEPT ![slot(t)] = Len(connections')]
    /\ got' = [got EXCEPT ![t] = [conn |-> local'[slot(t)], cached |-> FALSE,
                                  user_id |-> got[t].user_id, error |-> ""]]
    /\ first' = [first EXCEPT ![t] = IF @ = 0 THEN Len(connections') ELSE @]

\* raise Exception(text) out of get_salesforce_connection
connection_error(t, text) ==
    /\ got' = [got EXCEPT ![t] = [NoConnection EXCEPT !.user_id = got[t].user_id,
                                                     !.error = text]]
    /\ UNCHANGED <<local, connections, first>>

\* get_salesforce_connection, the body of the if: it raises without a
\* session, selects the entry of the user asked for or else the first one,
\* refreshes a token older than 90 minutes and raises when that fails, then
\* constructs a Salesforce object, stores it and returns what the attribute
\* holds
get_salesforce_connection_create(t) ==
    /\ tpc[t] = "create"
    /\ tpc' = [tpc EXCEPT ![t] = "idle"]
    /\ IF oauth_tokens = <<>>
       THEN /\ connection_error(t, "No active Salesforce sessions found")
            /\ UNCHANGED <<oauth_tokens, access_tokens, refreshed>>
       ELSE LET u == got[t].user_id
                i == IF u # NoUser /\ HasToken(oauth_tokens, u)
                     THEN TokenIdx(oauth_tokens, u) ELSE 1
                selected_user == oauth_tokens[i].user_id
                token_age == (now - oauth_tokens[i].login_timestamp) * TickSeconds
            IN IF token_age > RefreshAge
               THEN \E answer \in RefreshAnswers :
                       /\ refresh_call(selected_user, answer)
                       /\ IF refreshed'.ok
                          THEN connect(t, oauth_tokens'[i])
                          ELSE connection_error(t, "Failed to refresh token")
               ELSE /\ connect(t, oauth_tokens[i])
                    /\ UNCHANGED <<oauth_tokens, access_tokens, refreshed>>
    /\ UNCHANGED <<invocation, oauth_callback_data, callbacks, now, login,
                   loginCount>>

\* clear_connection_cache
clear_connection_cache(t) ==
    /\ tpc[t] = "idle"
    /\ local' = [local EXCEPT ![slot(t)] = 0]
    /\ first' = [first EXCEPT ![t] = 0]
    /\ UNCHANGED <<invocation, connections, tpc, got, oauth>>

\* a callback server is serving on port 1717
listening == \E t \in Threads : tpc[t] = "login"

\* _do_login up to the wait: it generates a state and starts the callback
\* server; while the server of another login holds the port the bind
\* raises and the catch-all answers (where the port scan finds the own
\* process it ends the process instead, and nothing follows)
do_login_start(t) ==
    /\ tpc[t] = "idle"
    /\ loginCount < MaxLogins
    /\ loginCount' = loginCount + 1
    /\ IF listening
       THEN /\ login' = [login EXCEPT ![t] = [state |-> States[loginCount'],
                                              popped |-> "",
                                              result |-> "Login error"]]
            /\ UNCHANGED tpc
       ELSE /\ login' = [login EXCEPT ![t] = [state |-> States[loginCount'],
                                              popped |-> "", result |-> ""]]
            /\ tpc' = [tpc EXCEPT ![t] = "login"]
    /\ UNCHANGED <<invocation, local, connections, got, first, oauth_tokens,
                   oauth_callback_data, callbacks, access_tokens, now, refreshed>>

\* SalesforceCallbackHandler.do_GET on the redirect path: a request with a
\* code is filed under its state parameter, one with an error under the
\* key error (a request with neither changes nothing)
SalesforceCallbackHandler_do_GET ==
    /\ listening
    /\ Cardinality(callbacks) < MaxCallbacks
    /\ \E k \in {"code", "error"}, st \in CallbackStates :
          /\ callbacks' = callbacks \cup {[kind |-> k, state |-> st]}
          /\ oauth_callback_data' =
                oauth_callback_data \cup {IF k = "code" THEN st ELSE "error"}
    /\ UNCHANGED <<invocation, cache, oauth_tokens, access_tokens, now, login,
                   loginCount, refreshed>>

\* _do_login, the success case of the wait: it pops the entry filed under
\* its state and exchanges the code; a failed exchange raises into the
\* catch-all, a successful one stores the entry of the user the endpoint
\* names
do_login_callback(t) ==
    /\ tpc[t] = "login"
    /\ login[t].state \in oauth_callback_data
    /\ oauth_callback_data' = oauth_callback_data \ {login[t].state}
    /\ tpc' = [tpc EXCEPT ![t] = "idle"]
    /\ \/ /\ login' = [login EXCEPT ![t].popped = login[t].state,
                                    ![t].result = "Login error"]
          /\ UNCHANGED <<oauth_tokens, access_tokens>>
       \/ \E u \in Users, r \in BOOLEAN :
             /\ Len(access_tokens) < MaxTokens
             /\ access_tokens' = Append(access_tokens, [user |-> u, at |-> now])
             /\ oauth_tokens' = StoreToken(oauth_tokens,
                                   [user_id |-> u,
                                    access_token |-> Len(access_tokens'),
                                    refresh_token |-> r,
                                    login_timestamp |-> now])
             /\ login' = [login EXCEPT ![t].popped = login[t].state,
                                       ![t].result = "Login successful"]
    /\ UNCHANGED <<invocation, local, connections, got, first, callbacks, now,
                   loginCount, refreshed>>

\* _do_login, the error case of the wait
do_login_error(t) ==
    /\ tpc[t] = "login"
    /\ login[t].state \notin oauth_callback_data
    /\ "error" \in oauth_callback_data
    /\ oauth_callback_data' = oauth_callback_data \ {"error"}
    /\ tpc' = [tpc EXCEPT ![t] = "idle"]
    /\ login' = [login EXCEPT ![t].popped = "error", ![t].result = "Login failed"]
    /\ UNCHANGED <<invocation, local, connections, got, first, oauth_tokens,
                   callbacks, access_tokens, now, loginCount, refreshed>>

\* _do_login, the end of the wait after 300 seconds
do_login_timeout(t) ==
    /\ tpc[t] = "login"
    /\ tpc' = [tpc EXCEPT ![t] = "idle"]
    /\ login' = [login EXCEPT ![t].result = "Login timeout"]
    /\ UNCHANGED <<invocation, local, connections, got, first, oauth_tokens,
                   oauth_callback_data, callbacks, access_tokens, now,
                   loginCount, refreshed>>

\* salesforce_logout
salesforce_logout ==
    /\ oauth_tokens' = <<>>
    /\ oauth_callback_data' = {}
    /\ UNCHANGED <<invocation, cache, callbacks, access_tokens, now, login,
                   loginCount, refreshed>>

ConnNext ==
    \/ time_passes
    \/ \E t \in Threads : get_salesforce_connection_cached(t)
    \/ \E t \in Threads : get_salesforce_connection_create(t)
    \/ \E t \in Threads : clear_connection_cache(t)
    \/ salesforce_logout

ConnSpec == ConnInit /\ [][ConnNext]_vars

\* ------------------------------------------- specification of the logins
\* the login tools of the threads, the callback server and the logout
LoginNext ==
    \/ \E t \in Threads : do_login_start(t)
    \/ SalesforceCallbackHandler_do_GET
    \/ \E t \in Threads : do_login_callback(t)
    \/ \E t \in Threads : do_login_error(t)
    \/ \E t \in Threads : do_login_timeout(t)
    \/ salesforce_logout

LoginSpec == Init /\ [][LoginNext]_vars

\* ------------------------------------------ specification of the refresh
\* refresh_salesforce_token applied to the sessions the logins left, while
\* time passes and until a logout
RefreshNext ==
    \/ time_passes
    \/ refresh_salesforce_token_direct
    \/ salesforce_logout

RefreshSpec == ConnInit /\ [][RefreshNext]_vars

\* ------------------------------------------ specification of the test runner
\* main of test_dynamic_tools.py runs run_tool on the selected tools
MaxSelected == 2

\* names of registered tools, and names a registry could hold
RegistryNames ==
    { <<"e", "x", "e", "c", "u", "t", "e", "_", "s", "o", "q", "l", "_", "q", "u", "e", "r", "y">>,
      <<"f", "e", "t", "c", "h", "_", "o", "b", "j", "e", "c", "t", "_", "m", "e", "t", "a", "d", "a", "t", "a">>,
      <<"s", "a", "l", "e", "s", "f", "o", "r", "c", "e", "_", "p", "r", "o", "d", "u", "c", "t", "i", "o", "n", "_", "l", "o", "g", "i", "n">>,
      <<"g", "e", "t", "_", "m", "e", "t", "a", "d", "a", "t", "a", "_", "d", "e", "p", "l", "o", "y", "_", "s", "t", "a", "t", "u", "s">>,
      <<"c", "r", "e", "a", "t", "e", "_", "a", "p", "e", "x", "_", "c", "l", "a", "s", "s">>,
      <<"u", "p", "s", "e", "r", "t", "_", "c", "u", "s", "t", "o", "m", "_", "f", "i", "e", "l", "d">>,
      <<"s", "a", "l", "e", "s", "f", "o", "r", "c", "e", "_", "l", "o", "g", "o", "u", "t">>,
      <<"S", "t", "o", "p", "_", "J", "o", "b">>,
      <<"o", "f", "f", "s", "e", "t", "_", "r", "e", "p", "o", "r", "t">> }

\* the keywords without logout
WRITE_KEYWORDS_NoLogout ==
    { <<"d", "e", "p", "l", "o", "y">>,
      <<"u", "p", "s", "e", "r", "t">>,
      <<"i", "n", "s", "e", "r", "t">>,
      <<"u", "p", "d", "a", "t", "e">>,
      <<"d", "e", "l", "e", "t", "e">>,
      <<"c", "r", "e", "a", "t", "e">>,
      <<"s", "e", "t", "_">>,
      <<"s", "t", "a", "r", "t", "_">>,
      <<"s", "t", "o", "p", "_">> }

WRITE_KEYWORDS ==
    { <<"d", "e", "p", "l", "o", "y">>,
      <<"u", "p", "s", "e", "r", "t">>,
      <<"i", "n", "s", "e", "r", "t">>,
      <<"u", "p", "d", "a", "t", "e">>,
      <<"d", "e", "l", "e", "t", "e">>,
      <<"l", "o", "g", "o", "u", "t">>,
      <<"c", "r", "e", "a", "t", "e">>,
      <<"s", "e", "t", "_">>,
      <<"s", "t", "a", "r", "t", "_">>,
      <<"s", "t", "o", "p", "_">> }

UpperCase == <<"A", "B", "C", "D", "E", "F", "G", "H", "I", "J", "K", "L", "M", "N", "O", "P", "Q", "R", "S", "T", "U", "V", "W", "X", "Y", "Z">>

LowerCase == <<"a", "b", "c", "d", "e", "f", "g", "h", "i", "j", "k", "l", "m", "n", "o", "p", "q", "r", "s", "t", "u", "v", "w", "x", "y", "z">>

\* str.lower of a name
name_lower(n) ==
    [i \in DOMAIN n |->
        IF \E k \in DOMAIN UpperCase : UpperCase[k] = n[i]
        THEN LowerCase[CHOOSE k \in DOMAIN UpperCase : UpperCase[k] = n[i]]
        ELSE n[i]]

\* k in n, of two strings
Contains(k, n) ==
    \E i \in 0..(Len(n) - Len(k)) : SubSeq(n, i + 1, i + Len(k)) = k

is_write_tool(n) == \E k \in WRITE_KEYWORDS : Contains(k, name_lower(n))

\* what the call of a tool's function does: inspect.signature raises
\* before it, or the function returns, or it raises
FuncBehaviours == {"no_signature", "returns", "raises"}

\* the outcome dictionary of run_tool
Outcome(n, st) == [tool |-> n, write_op |-> is_write_tool(n), status |-> st]

\* the test runner starts, with or without --allow-write
RunnerInit ==
    /\ IdleTool
    /\ IdleCache
    /\ NoSessions
    /\ allow_write \in BOOLEAN
    /\ results = <<>>
    /\ invoked = <<>>

\* run_tool on a selected tool not run before
run_tool ==
    /\ Len(results) < MaxSelected
    /\ \E n \in RegistryNames, f \in FuncBehaviours :
          /\ \A i \in DOMAIN results : results[i].tool # n
          /\ IF is_write_tool(n) /\ ~allow_write
             THEN /\ results' = Append(results, Outcome(n, "skipped (write op)"))
                  /\ UNCHANGED invoked
             ELSE IF f = "no_signature"
             THEN /\ results' = Append(results, Outcome(n, "error"))
                  /\ UNCHANGED invoked
             ELSE /\ invoked' = Append(invoked, n)
                  /\ results' = Append(results,
                                   Outcome(n, IF f = "returns" THEN "ok" ELSE "error"))
    /\ UNCHANGED <<workflow, pc, args, documents, result, reader, cache, oauth,
                   allow_write>>

RunnerNext == run_tool

RunnerSpec == RunnerInit /\ [][RunnerNext]_vars

\* ------------------------------------------------------- reading the log
DeployIdx == {i \in DOMAIN reqs : reqs[i].op = "deploy"}
StatusIdx == {i \in DOMAIN reqs : reqs[i].op = "status"}

\* the i-th remote call is an existence query that answered `outcome`
IsExistenceQuery(i, outcome) ==
    /\ \/ /\ tool \in ApexTools
          /\ reqs[i].op = "query"
          /\ reqs[i].target = "ApexClass"
       \/ /\ tool \in LwcTools
          /\ reqs[i].op = "tooling"
          /\ reqs[i].target = "LightningComponentBundle"
    /\ reqs[i].outcome = outcome

ExistenceReported(outcome) == \E i \in DOMAIN reqs : IsExistenceQuery(i, outcome)

DescribeReported(outcome) ==
    \E i \in DOMAIN reqs : reqs[i].op = "describe" /\ reqs[i].outcome = outcome

LastReq == reqs[Len(reqs)]

\* the identifier grammar of the platform: a letter first, then letters,
\* digits and underscores
NamingGrammar(n) ==
    /\ n # <<>>
    /\ IsAlpha(n[1])
    /\ \A i \in 1..Len(n) : IsAlpha(n[i]) \/ IsDigit(n[i]) \/ n[i] = "_"

\* the objects the permission grant reads and writes
FlsTargets == {"PermissionSet", "chatter/users/me", "User",
               "PermissionSetAssignment", "FieldPermissions"}

\* ------------------------------------------------------------------ claims

\* C1: a status request that fails (transport error or HTTP error status)
\* does not end the poll: after it the poller is still running, about to
\* sleep and retry.
C1_StatusFailureIsTransient ==
    (/\ reqs # <<>>
     /\ LastReq.op = "status"
     /\ LastReq.outcome \in {"transport_error", "http_error"})
    => (~status.returned /\ pc = "sleep")

C4_InvalidNameNoRemoteCall ==
    (tool \in Tools /\ ~NamingGrammar(name))
    => (/\ reqs = <<>>
        /\ response.returned => ~response.success)

\* C5: when the existence query of a create orchestrator reports the entity
\* as present, the orchestrator returns success = false with an 'already
\* exists' error and the invocation submits no deploy.
C5_CreateConflict ==
    (tool \in CreateTools /\ ExistenceReported("found"))
    => (/\ DeployIdx = {}
        /\ response.returned
        /\ ~response.success
        /\ response.error \in {"Apex class already exists",
                               "LWC component already exists"})

C5_Witness ==
    /\ calls = 2
    /\ tool = "create_lwc_component"
    /\ ExistenceReported("found")
    /\ response.returned

\* C6 as stated: every update orchestrator, the object and field tools
\* included, answers a missing entity with a not-found failure and submits
\* no deploy.
C6_Original ==
    (tool \in UpdateTools /\ ~exists)
    => (/\ DeployIdx = {}
        /\ response.returned => (~response.success /\ response.error # ""))

\* C6 as amended: upsert_apex_class and upsert_lwc_component answer an
\* existence query that finds nothing with a not-found failure and no deploy;
\* upsert_custom_field answers a failed describe of the object with 'Object
\* not found' and no deploy, and goes on to deploy (a create) when the
\* describe does not list the field, unless generating the field documents
\* raised; upsert_custom_object makes no existence query at all.
C6_UpdateNotFound ==
    /\ (tool \in {"upsert_apex_class", "upsert_lwc_component"}
        /\ ExistenceReported("absent"))
       => (/\ DeployIdx = {}
           /\ response.returned
           /\ ~response.success
           /\ response.error \in {"Apex class not found", "Component not found"})
    /\ (tool = "upsert_custom_field" /\ DescribeReported("raise"))
       => (/\ DeployIdx = {}
           /\ response.returned
           /\ ~response.success
           /\ response.error = "Object not found")
    /\ (tool = "upsert_custom_field" /\ DescribeReported("absent"))
       => (/\ ~is_update
           /\ pc = "submit" \/ DeployIdx # {} \/ response.error = "TypeError"
           /\ response.operation \in {"", "create_custom_field"})
    /\ tool = "upsert_custom_object"
       => \A i \in DOMAIN reqs : reqs[i].op \notin {"query", "tooling", "describe"}

C6_Witness ==
    /\ tool = "upsert_lwc_component"
    /\ ExistenceReported("absent")
    /\ response.returned
    /\ response.error = "Component not found"

\* C7 as stated: when the describe lists the field, the field orchestrator
\* makes no remote call after the describe and returns success = false with
\* an 'already exists' error.
C7_Original ==
    (tool = "upsert_custom_field" /\ DescribeReported("found"))
    => (/\ LastReq.op = "describe"
        /\ response.returned
           => (~response.success /\ response.error = "Field already exists"))

\* C7 as amended: when the describe lists the field, the field orchestrator
\* treats the request as an update: it goes on to submit a committing deploy
\* unless generating the field documents raised, it never answers 'already
\* exists', and a response that names an operation names update_custom_field.
C7_ExistingFieldIsUpdated ==
    (tool = "upsert_custom_field" /\ DescribeReported("found"))
    => (/\ is_update
        /\ \/ pc = "submit"
           \/ \E i \in DeployIdx : ~reqs[i].checkOnly
           \/ response.error = "TypeError"
        /\ response.error # "Field already exists"
        /\ response.returned /\ response.job_id # 0
           => response.operation = "update_custom_field")

C7_Witness ==
    /\ tool = "upsert_custom_field"
    /\ DescribeReported("found")
    /\ response.returned
    /\ response.success
    /\ response.operation = "update_custom_field"

\* C8: in the field orchestrator every committing deploy is preceded by a
\* validate-only deploy (checkOnly = true) that was polled to a terminal
\* state.
C8_ValidateBeforeCommit ==
    tool = "upsert_custom_field"
    => \A i \in DeployIdx :
          ~reqs[i].checkOnly
          => \E j \in DeployIdx, k \in StatusIdx :
                /\ j < k
                /\ k < i
                /\ reqs[j].checkOnly
                /\ reqs[k].outcome = "done"

\* C9: when a step of the permission grant fails, the response of the field
\* orchestrator still has success = true and the deploy's job id, no errors,
\* and reports the grant in its fls_grant sub-result.
C9_GrantFailureIsNotFatal ==
    (/\ tool = "upsert_custom_field"
     /\ response.returned
     /\ \E i \in DOMAIN reqs :
           reqs[i].target \in FlsTargets /\ reqs[i].outcome = "raise")
    => (/\ status.success
        /\ response.success
        /\ response.job_id = dep
        /\ dep > 0
        /\ response.errors = NoDetails
        /\ response.has_fls
        /\ response.fls_grant = fls_result)

C9_Witness ==
    /\ tool = "upsert_custom_field"
    /\ response.returned
    /\ reqs # <<>>
    /\ LastReq.target = "FieldPermissions"
    /\ LastReq.op = "create"
    /\ LastReq.outcome = "raise"
    /\ response.fls_grant.permission_set_id
    /\ ~response.fls_grant.field_permissions_id

\* C10: a deploy submission that fails (transport error, HTTP error, no id
\* in the response) is the last remote call of the invocation, and the
\* orchestrator returns success = false with the error.
C10_FailedSubmissionStops ==
    \A i \in DeployIdx :
       reqs[i].outcome # "ok"
       => (/\ i = Len(reqs)
           /\ response.returned
           /\ ~response.success
           /\ response.error # ""
           /\ response.job_id = 0)

C10_Witness ==
    /\ reqs # <<>>
    /\ LastReq.op = "deploy"
    /\ LastReq.outcome = "no_id"
    /\ response.returned
    /\ response.error = "Deploy response missing id"

\* C11: a deploy submission is never repeated: one invocation sends at most
\* one deploy POST, and no deploy POST follows a deploy POST or a status
\* request (whether it failed, answered, or the poll timed out).
C11_NoAutomaticRetry ==
    /\ Cardinality(DeployIdx) <= 1
    /\ \A i, j \in DOMAIN reqs :
          (i < j /\ reqs[j].op = "deploy") => reqs[i].op \notin {"deploy", "status"}

C11_Witness ==
    /\ response.returned
    /\ status.status = "Timeout"
    /\ Cardinality(DeployIdx) = 1
    /\ Cardinality(StatusIdx) >= 2

\* C12: every status request follows a submission that returned a job id
\* and polls that id; every existence check (query or describe) precedes
\* the submission; every request of the permission grant follows a status
\* response with done = true and every status request of the invocation.
C12_WorkflowOrder ==
    /\ \A i \in StatusIdx :
          \E j \in DeployIdx :
             /\ j < i
             /\ reqs[j].outcome = "ok"
             /\ reqs[j].id > 0
             /\ reqs[i].id = reqs[j].id
    /\ \A i \in DOMAIN reqs :
          (\/ reqs[i].op = "describe"
           \/ \E o \in {"found", "absent", "raise"} : IsExistenceQuery(i, o))
          => \A j \in DeployIdx : i < j
    /\ \A i \in DOMAIN reqs :
          reqs[i].target \in FlsTargets
          => /\ \E k \in StatusIdx : k < i /\ reqs[k].outcome = "done"
             /\ \A k \in StatusIdx : k < i

C12_Witness ==
    /\ tool = "upsert_custom_field"
    /\ response.returned
    /\ DescribeReported("found")
    /\ Cardinality(StatusIdx) >= 2
    /\ \E i \in DOMAIN reqs : reqs[i].target = "FieldPermissions"

\* C13: once a submission returned a job id, the response of the
\* orchestrator carries that id as job_id.
C13_JobIdAlwaysReported ==
    response.returned
    => \A i \in DeployIdx :
          reqs[i].outcome = "ok" => response.job_id = reqs[i].id

\* the last remote call is a status response with done = true and a status
\* that is not one of the two successful ones
FailedTerminal ==
    /\ reqs # <<>>
    /\ LastReq.op = "status"
    /\ LastReq.outcome = "done"
    /\ LastReq.st \notin {"", "Succeeded", "SucceededPartial"}

\* C14 as stated: on a failed terminal status every orchestrator answers
\* success = false with errors equal to the remote details.
C14_Original ==
    (FailedTerminal /\ response.returned)
    => (~response.success /\ response.errors = LastReq.details)

\* C14: on a failed terminal status the poller's outcome carries the status
\* and the details of the remote response unchanged, and the orchestrator
\* answers success = false with those details, under errors (Apex, LWC,
\* field) or under details (upsert_custom_object, which has no errors key).
C14_FailureDetailsSurfaced ==
    FailedTerminal
    => /\ status.returned /\ ~status.raised /\ ~status.success
       /\ status.status = LastReq.st
       /\ status.details = LastReq.details
       /\ response.returned
          => /\ ~response.success
             /\ IF tool = "upsert_custom_object"
                THEN response.details = LastReq.details /\ ~response.errors.present
                ELSE response.errors = LastReq.details

C14_Witness ==
    /\ FailedTerminal
    /\ LastReq.details.componentFailures = 1
    /\ tool \in ApexTools
    /\ response.returned
    /\ response.errors.componentFailures = 1

\* C15: a response with success = true has no errors; errors are present
\* only in a response with success = false.
C15_ErrorsOnlyOnFailure ==
    response.returned
    => /\ response.success => response.errors = NoDetails
       /\ response.errors.present => ~response.success

C15_Witness ==
    /\ response.returned
    /\ response.success
    /\ tool \in LwcTools
    /\ status.status = "Succeeded"
    /\ status.details.present
    /\ ~response.errors.present

\* C16 as stated: an outcome that is failed or timed out holds a component
\* failure or was produced without any status response; a Succeeded outcome
\* holds no component failure.
C16_Original ==
    (status.returned /\ ~status.raised)
    => /\ ~status.success
          => (status.details.componentFailures >= 1 \/ StatusIdx = {})
       /\ status.status = "Succeeded" => status.details.componentFailures = 0

\* C16: the outcome is Timeout only if no status response of the poll had
\* done = true, and it then carries no details; any other outcome repeats
\* the status and the details of the response with done = true, and is a
\* success exactly for Succeeded and SucceededPartial; a Succeeded outcome
\* holds no component failure.
C16_PollerOutcome ==
    (status.returned /\ ~status.raised)
    => /\ status.status = "Timeout"
          => /\ ~status.success
             /\ status.details = NoDetails
             /\ \A i \in StatusIdx : reqs[i].outcome = "nondone"
       /\ status.status # "Timeout"
          => \E i \in StatusIdx :
                /\ \A k \in StatusIdx : k <= i
                /\ reqs[i].outcome = "done"
                /\ reqs[i].st = status.status
                /\ reqs[i].details = status.details
                /\ status.success <=> reqs[i].st \in {"Succeeded", "SucceededPartial"}
       /\ status.status = "Succeeded" => status.details.componentFailures = 0

C16_Witness ==
    /\ status.returned
    /\ status.status = "Failed"
    /\ status.details.present
    /\ status.details.componentFailures = 0
    /\ Cardinality(StatusIdx) >= 2

\* the entries of archive a at the path of the manifest
ManifestIdx(a) == {k \in DOMAIN a : a[k].path = <<"package.xml">>}

\* the metadata type each tool deploys
MetadataTypeOf(t) ==
    CASE t \in ApexTools -> "ApexClass"
      [] t \in LwcTools -> "LightningComponentBundle"
      [] t = "upsert_custom_object" -> "CustomObject"
      [] OTHER -> "CustomField"

\* C17 as stated: every uploaded archive has exactly one entry at
\* package.xml, and its manifest declares as many members as the archive
\* has other entries.
C17_Original ==
    \A i \in DeployIdx :
       LET a == reqs[i].archive IN
       /\ Cardinality(ManifestIdx(a)) = 1
       /\ \A k \in ManifestIdx(a) : Len(a[k].package.members) = Len(a) - 1

\* C17: every uploaded archive has exactly one entry at package.xml, whose
\* manifest declares exactly one member, of the tool's metadata type; next
\* to it the archive has one entry for an object or a field, two for an
\* Apex class, and three for an LWC bundle plus one when a stylesheet is
\* supplied.
C17_ArchiveManifest ==
    \A i \in DeployIdx :
       LET a == reqs[i].archive IN
       /\ Cardinality(ManifestIdx(a)) = 1
       /\ \A k \in ManifestIdx(a) :
             /\ Len(a[k].package.members) = 1
             /\ a[k].package.name = MetadataTypeOf(tool)
       /\ Len(a) - 1 = CASE tool \in ApexTools -> 2
                         [] tool \in LwcTools -> IF content = "with_css" THEN 4 ELSE 3
                         [] OTHER -> 1

C17_Witness ==
    /\ tool \in LwcTools
    /\ \E i \in DeployIdx :
          /\ Len(reqs[i].archive) = 5
          /\ reqs[i].archive[1].package.members = <<name>>

\* the field configuration lacks the attribute its type requires: a
\* picklist without values, a lookup or master-detail without referenceTo
MissingRequiredAttribute ==
    /\ tool = "upsert_custom_field"
    /\ field_config # NoConfig
    /\ \/ /\ TypeOf(field_config) = "Picklist"
          /\ ~Truthy(GetKey(field_config, "picklistValues"))
       \/ /\ TypeOf(field_config) \in {"Lookup", "MasterDetail"}
          /\ ~Truthy(GetKey(field_config, "referenceTo"))

\* C18: when the field configuration lacks the attribute its type
\* requires, no deploy is submitted and the response is a failure.
C18_MissingAttributeRejected ==
    MissingRequiredAttribute
    => /\ DeployIdx = {}
       /\ response.returned => ~response.success

\* the elements with tag `tag` among the field elements of doc
HasElement(doc, tag) == \E k \in DOMAIN doc.fields : doc.fields[k].tag = tag

\* the type-specific elements of doc appear under the declared type only
TypeGated(doc, t) ==
    /\ HasElement(doc, "length") => t \in {"Text", "LongTextArea"}
    /\ HasElement(doc, "visibleLines") => t = "LongTextArea"
    /\ (HasElement(doc, "precision") \/ HasElement(doc, "scale"))
       => t \in {"Number", "Currency", "Percent"}
    /\ HasElement(doc, "valueSet") => t \in {"Picklist", "MultiselectPicklist"}
    /\ (\/ HasElement(doc, "referenceTo")
        \/ HasElement(doc, "relationshipLabel")
        \/ HasElement(doc, "relationshipName"))
       => t \in {"Lookup", "MasterDetail"}
    /\ HasElement(doc, "deleteConstraint") => t = "MasterDetail"

\* C19: in the CustomField document and in the fields block of the
\* CustomObject document, length appears only for Text and LongTextArea,
\* precision and scale only for Number, Currency and Percent, the value set
\* only for Picklist and MultiselectPicklist, referenceTo and the
\* relationship attributes only for Lookup and MasterDetail, whatever keys
\* the field configuration holds.
C19_TypeSpecificElements ==
    /\ field_xml # NoDocument => TypeGated(field_xml, TypeOf(field_config))
    /\ obj_xml # NoDocument => TypeGated(obj_xml, TypeOf(field_config))

C19_Witness ==
    /\ pc = "obj_xml"
    /\ TypeOf(field_config) = "Text"
    /\ \A key \in TypeSpecificKeys : Has(field_config, key)
    /\ HasElement(field_xml, "length")
    /\ HasElement(obj_xml, "length")
    /\ ~HasElement(obj_xml, "precision")

\* ------------------------------------------- reading a document back
\* the text of the first field element of doc with tag `tag`
ElementOf(doc, tag) ==
    doc.fields[CHOOSE k \in DOMAIN doc.fields :
                   /\ doc.fields[k].tag = tag
                   /\ \A y \in 1..(k - 1) : doc.fields[y].tag # tag]

\* an integer, a boolean, a text read from the text of an element
ReadInt(text) ==
    IF Len(text) = 1 /\ text[1] \in IntTexts THEN IntV(IntOf(text[1])) ELSE StrV(text)
ReadBool(text) ==
    IF text \in {<<"true">>, <<"false">>} THEN BoolV(text = <<"true">>) ELSE StrV(text)

\* the picklist values read from a valueSet element
ReadValues(values) ==
    ListV([k \in DOMAIN values |->
              [fullName |-> values[k].fullName, label |-> values[k].label,
               default |-> values[k].default = <<"true">>]])

\* the value of attribute `key` read from the field elements of doc
ReadBack(doc, key) ==
    CASE key = "picklistValues" ->
            IF HasElement(doc, "valueSet")
            THEN ReadValues(ElementOf(doc, "valueSet").values) ELSE Absent
      [] ~HasElement(doc, key) -> Absent
      [] key \in {"length", "visibleLines", "precision", "scale"} ->
            ReadInt(ElementOf(doc, key).text)
      [] key = "defaultValue" -> ReadBool(ElementOf(doc, key).text)
      [] OTHER -> StrV(ElementOf(doc, key).text)

\* the field types the tool documents, and the key of type_params that
\* supplies each attribute
DocumentedTypes == {"Text", "LongTextArea", "Number", "Currency", "Checkbox",
                    "Date", "Email", "Picklist", "Lookup", "MasterDetail"}
ParamOf(key) ==
    CASE key = "defaultValue" -> "default"
      [] key = "picklistValues" -> "values"
      [] OTHER -> key

\* C20: for a field configuration built by upsert_custom_field for a
\* documented type, the CustomObject document of the archive reads back to
\* the same name, the same type and the same value of every type-specific
\* attribute that type_params supplied.
C20_RoundTrip ==
    (/\ pc = "obj_xml"
     /\ field_type \in DocumentedTypes
     /\ field_config = build_field_config)
    => /\ ReadBack(obj_xml, "fullName") = field_config.fullName
       /\ ReadBack(obj_xml, "type") = field_config.type
       /\ \A key \in TypeSpecificKeys \ {"relationshipLabel"} :
             (Has(field_config, key) /\ InDict(parse_kv(type_params), ParamOf(key)))
             => ReadBack(obj_xml, key) = field_config[key]

\* the names the archive of the current invocation deploys
DeployedNames ==
    CASE tool \in ApexTools \cup LwcTools -> {name}
      [] tool = "upsert_custom_object" -> {NormalizeCustomObject(name)}
      [] OTHER -> {normalize_object_name(objname), field_name}

\* those of them that name a custom object or a custom field
DeployedCustomNames ==
    CASE tool = "upsert_custom_object" -> {NormalizeCustomObject(name)}
      [] tool = "upsert_custom_field" -> {field_name}
      [] OTHER -> {}

\* C21: every entity name that reaches a deploy submission matches the
\* identifier grammar (a letter first, then letters, digits and
\* underscores), and the name of a custom object or field ends in __c.
C21_DeployedNamesWellFormed ==
    DeployIdx # {}
    => (/\ \A n \in DeployedNames : NamingGrammar(n)
        /\ \A n \in DeployedCustomNames : EndsWithSuffix(n))

\* two recorded calls of get_metadata_deploy_status with the same arguments
\* that the platform answered while it held the same deployResult
SameQuestion(a, b) ==
    /\ a.job_id = b.job_id
    /\ a.include_details = b.include_details
    /\ a.job = b.job
    /\ a.answered /\ b.answered

\* C22: get_metadata_deploy_status is read-only and idempotent: a call
\* issues at most one request, a GET for the job id it was given (exactly
\* one once it has a connection), never a mutating one, whatever the poller
\* of the submitting orchestrator returned; and two calls with the same
\* arguments that the platform answers from an unchanged job return the
\* same envelope.
C22_StatusQueryIdempotent ==
    /\ tool = "get_metadata_deploy_status"
       => (/\ Len(reqs) <= 1
           /\ \A i \in DOMAIN reqs :
                 /\ reqs[i].op = "status"
                 /\ reqs[i].id = job_id
                 /\ reqs[i].op \notin MutatingOps
           /\ (response.returned /\ response.error # "No active Salesforce sessions found")
              => Len(reqs) = 1)
    /\ jobCount = 1
    /\ \A i \in DOMAIN status_calls : \A j \in DOMAIN status_calls :
          SameQuestion(status_calls[i], status_calls[j])
          => status_calls[i].response = status_calls[j].response

\* the poller had timed out, the job has ended since, and the second of two
\* equal calls has returned the job's success
C22_Witness ==
    /\ status = TimeoutOutcome
    /\ tool = "get_metadata_deploy_status"
    /\ response.returned /\ response.success
    /\ Len(status_calls) = 2
    /\ SameQuestion(status_calls[1], status_calls[2])

SuccessStatuses == {"Succeeded", "SucceededPartial"}

C24_ConnectionCacheIsolated ==
    \A t \in Threads :
        /\ got[t].conn # 0
           => (/\ connections[got[t].conn].by = t
               /\ first[t] # 0 => got[t].conn = first[t])
        /\ local[t] # 0
           => (/\ connections[local[t]].by = t
               /\ local[t] = first[t])

\* both threads hold a connection, each its own, and the last call of each
\* was answered from the cache
C24_Witness ==
    /\ \A t \in Threads : got[t].cached /\ got[t].conn = first[t]
    /\ got["t1"].conn # got["t2"].conn

\* the last status request of the log
LastStatusReq == reqs[CHOOSE i \in StatusIdx : \A j \in StatusIdx : j <= i]

StatusRequestStep ==
    /\ Len(reqs') = Len(reqs) + 1
    /\ reqs'[Len(reqs')].op = "status"

\* C26: the poller tests the timeout before every status request and
\* issues none once the elapsed time exceeds timeout_seconds; after a
\* response that does not end the poll it sleeps once, for
\* interval_seconds, and then tests the timeout again; it sleeps at no
\* other point, in particular not after a terminal response.
C26_PollerTiming ==
    [][ /\ StatusRequestStep => (pc = "poll" /\ ~TimedOut(elapsed))
        /\ (pc' = "poll" /\ pc # "poll") => pc \in {"submit", "sleep"}
        /\ (StatusRequestStep /\ reqs'[Len(reqs')].outcome = "nondone") => pc' = "sleep"
        /\ pc' = "sleep"
           => (StatusRequestStep /\ reqs'[Len(reqs')].outcome = "nondone")
        /\ pc = "sleep"
           => (/\ pc' = "poll"
               /\ elapsed' = elapsed + interval_seconds
               /\ reqs' = reqs) ]_vars

\* two status requests with a sleep between them, and after the sleep that
\* followed the second the time is up: the poller is about to return
\* Timeout without a third request
C26_Witness ==
    /\ pc = "poll"
    /\ Cardinality(StatusIdx) = 2
    /\ TimedOut(elapsed)

\* C27: the result of deploy_apex_class_internal and of
\* deploy_lwc_component_internal carries success = true exactly when the
\* terminal status is Succeeded, compared without regard to case, and
\* false for every other status, SucceededPartial and Timeout included.
C27_StrictSuccess ==
    (tool \in ApexTools \cup LwcTools /\ status.returned /\ ~status.raised)
    => (status.success <=> success_flag(status))

\* C28: every tool answers every invocation with an envelope that carries
\* a boolean success; no exception leaves a tool.
C28_AlwaysAnEnvelope ==
    /\ pc # "escaped"
    /\ (pc \in {"idle", "ready"} /\ calls > 0)
       => (response.returned /\ response.success \in BOOLEAN)

\* C29: when the existence query itself raises, upsert_lwc_component fails
\* closed, with success = false and no deploy, and create_lwc_component
\* goes on to submit the deploy.
C29_ExistenceQueryFailure ==
    ExistenceReported("raise")
    => (/\ tool = "upsert_lwc_component"
           => (/\ DeployIdx = {}
               /\ pc = "idle"
               /\ response.returned /\ ~response.success
               /\ response.error = "Unable to verify LWC existence via Tooling API")
        /\ tool = "create_lwc_component"
           => (pc = "submit" \/ DeployIdx # {}))

\* create_lwc_component has deployed a bundle whose existence query raised
C29_Witness ==
    /\ tool = "create_lwc_component"
    /\ ExistenceReported("raise")
    /\ DeployIdx # {}
    /\ response.returned /\ response.success

\* the import check of upsert_lwc_component has asked for the class and
\* the query has answered a
ApexCheckReported(a) ==
    \E i \in DOMAIN reqs :
        /\ reqs[i].op = "tooling"
        /\ reqs[i].target = "ApexClass"
        /\ reqs[i].outcome = a

FlsIdx == {i \in DOMAIN reqs : reqs[i].target \in FlsTargets}

\* C31: in upsert_custom_field, when the poller returns a failed status or
\* a timeout, no step of the permission grant runs (no query, create or
\* update on a permission set, an assignment or FieldPermissions), and the
\* response has success = false with the job id of the deploy.
C31_NoGrantAfterFailedDeploy ==
    (/\ tool = "upsert_custom_field"
     /\ status.returned /\ ~status.raised /\ ~status.success)
    => (/\ FlsIdx = {}
        /\ pc \in {"polled", "idle"}
        /\ response.returned
           => (/\ ~response.success
               /\ response.job_id = dep /\ dep > 0
               /\ ~response.has_fls))

\* the field deploy timed out and the tool has answered
C31_Witness ==
    /\ tool = "upsert_custom_field"
    /\ status = TimeoutOutcome
    /\ response.returned
    /\ response.message = "Field deployment failed"
    /\ FlsIdx = {}
\* C32: upsert_custom_field names the operation update_custom_field exactly
\* when the describe taken before the deploy listed the field and
\* create_custom_field otherwise; every answer that names an operation names
\* the field with its __c suffix, and a successful create follows one
\* upload whose manifest declares one member of kind CustomField.
C32_FieldOperation ==
    (/\ tool = "upsert_custom_field"
     /\ response.returned
     /\ response.operation # "")
    => (/\ response.operation = "update_custom_field" <=> DescribeReported("found")
        /\ response.operation = "create_custom_field" <=> DescribeReported("absent")
        /\ response.field_name = field_name
        /\ response.job_id = dep
        /\ (response.success /\ response.operation = "create_custom_field")
           => (/\ Cardinality(DeployIdx) = 1
               /\ \A i \in DeployIdx :
                     LET a == reqs[i].archive IN
                     /\ Cardinality(ManifestIdx(a)) = 1
                     /\ \A k \in ManifestIdx(a) :
                           /\ Len(a[k].package.members) = 1
                           /\ a[k].package.name = "CustomField"))

C32_Witness ==
    /\ tool = "upsert_custom_field"
    /\ name = <<"A", "b">>
    /\ response.returned
    /\ response.success
    /\ response.operation = "create_custom_field"
    /\ response.field_name = <<"A", "b", "_", "_", "c">>
    /\ response.message = "Successfully deployed field and granted read/edit"
    /\ DescribeReported("absent")

\* the seconds since the access token of connection c was issued, after a
\* step
TokenAgeAfter(c) ==
    (now' - access_tokens'[connections'[c].session_id].at) * TickSeconds

\* C33: every connection get_salesforce_connection returns carries an access
\* token issued at most 90 minutes before the call; when the refresh of an
\* older token fails the call raises and the thread's cache holds no
\* connection.
C33_FreshToken ==
    [][\A t \in Threads :
          got'[t] # got[t]
          => (/\ got'[t].conn # 0 => TokenAgeAfter(got'[t].conn) <= RefreshAge
              /\ got'[t].error = "Failed to refresh token" => local'[t] = 0)]_vars

\* C34: a connection returned to a call that names a user_id was built from
\* the stored token of that user, whether or not that user has a stored
\* token and whatever connection the thread has cached.
C34_ConnectionOfRequestedUser ==
    \A t \in Threads :
       (got[t].conn # 0 /\ got[t].user_id # NoUser)
       => connections[got[t].conn].user = got[t].user_id

\* C35: while the token store is empty after a logout, every call of
\* get_salesforce_connection that returns, in any thread, fails with the
\* error of no active sessions, also in a thread that had a connection
\* cached before the logout.
C35_NoConnectionAfterLogout ==
    [][\A t \in Threads :
          (/\ oauth_tokens = <<>>
           /\ got'[t] # got[t]
           /\ tpc'[t] = "idle")
          => (/\ got'[t].conn = 0
              /\ got'[t].error = "No active Salesforce sessions found")]_vars

\* the callback server received a request of kind k that carries the state
\* of the login of thread t
ReceivedFor(t, k) == [kind |-> k, state |-> login[t].state] \in callbacks

\* a step in which the login of thread t returns
LoginReturns(t) == login'[t] # login[t] /\ login'[t].result # ""

\* C36: a login stores a token only after the server received a callback
\* with a code and the state the login generated, and the exchange
\* succeeded; every entry a login consumed was filed by a callback that
\* carries the login's state; a login that ends with Login failed, Login
\* timeout or Login error leaves the token store as it was.
C36_LoginStateChecked ==
    [][\A t \in Threads :
          /\ LoginReturns(t)
             => (/\ login'[t].result = "Login successful"
                    => (ReceivedFor(t, "code")' /\ login'[t].popped = login'[t].state)
                 /\ login'[t].popped # ""
                    => \E cb \in callbacks' : cb.state = login'[t].state
                 /\ login'[t].result # "Login successful"
                    => oauth_tokens' = oauth_tokens)
          /\ (oauth_tokens' # oauth_tokens /\ oauth_tokens' # <<>>)
             => \E th \in Threads :
                   LoginReturns(th) /\ login'[th].result = "Login successful"]_vars

\* C37: a login returns Login failed only after the server received an
\* error callback that carries the state of that login: the error callback
\* of one attempt never ends another attempt.
C37_ErrorReportedToItsLogin ==
    \A t \in Threads :
       login[t].result = "Login failed" => ReceivedFor(t, "error")

\* C38: a call of refresh_salesforce_token for a user without an entry or
\* without a refresh token returns false; a call that returns false leaves
\* the token store as it was; a call that returns true gave the entry of
\* its user a new access_token and the login_timestamp of the call, and
\* changed neither another field of that entry, nor the entry of another
\* user, nor the order of the entries.
C38_RefreshFrame ==
    [][refreshed' # refreshed
       => LET u == refreshed'.user_id IN
          /\ ~HasToken(oauth_tokens, u) => ~refreshed'.ok
          /\ (HasToken(oauth_tokens, u)
              /\ ~oauth_tokens[TokenIdx(oauth_tokens, u)].refresh_token)
             => ~refreshed'.ok
          /\ ~refreshed'.ok => oauth_tokens' = oauth_tokens
          /\ refreshed'.ok
             => (/\ DOMAIN oauth_tokens' = DOMAIN oauth_tokens
                 /\ \A i \in DOMAIN oauth_tokens :
                       IF oauth_tokens[i].user_id = u
                       THEN /\ oauth_tokens'[i] =
                                 [oauth_tokens[i] EXCEPT
                                    !.access_token = oauth_tokens'[i].access_token,
                                    !.login_timestamp = now]
                            /\ oauth_tokens'[i].access_token
                                 # oauth_tokens[i].access_token
                       ELSE oauth_tokens'[i] = oauth_tokens[i])]_vars

\* the second of two users was refreshed a tick after the logins
C38_Witness ==
    /\ refreshed.ok
    /\ Len(oauth_tokens) = 2
    /\ oauth_tokens[2].user_id = refreshed.user_id
    /\ oauth_tokens[2].access_token = 3
    /\ oauth_tokens[2].login_timestamp = 1
    /\ oauth_tokens[1].access_token = 1
    /\ oauth_tokens[1].login_timestamp = 0

\* the words of the claim that make a tool a write tool
WriteWords ==
    { <<"d", "e", "p", "l", "o", "y">>,
      <<"u", "p", "s", "e", "r", "t">>,
      <<"i", "n", "s", "e", "r", "t">>,
      <<"u", "p", "d", "a", "t", "e">>,
      <<"d", "e", "l", "e", "t", "e">>,
      <<"l", "o", "g", "o", "u", "t">>,
      <<"c", "r", "e", "a", "t", "e">>,
      <<"s", "e", "t", "_">>,
      <<"s", "t", "a", "r", "t", "_">>,
      <<"s", "t", "o", "p", "_">> }

NamedAsWrite(n) == \E k \in WriteWords : Contains(k, n)

\* C39: without allow_write the test runner calls the function of no tool
\* whose name contains one of the write words, and the outcome of run_tool
\* for such a tool has the status skipped (write op).
C39_WriteToolsSkipped ==
    ~allow_write
    => (/\ \A j \in DOMAIN invoked : ~NamedAsWrite(invoked[j])
        /\ \A i \in DOMAIN results :
              NamedAsWrite(results[i].tool)
              => (/\ results[i].status = "skipped (write op)"
                  /\ results[i].write_op))

\* without allow_write, salesforce_logout was skipped and a read tool ran
C39_Witness ==
    /\ ~allow_write
    /\ Len(results) = 2
    /\ results[1].tool = <<"s", "a", "l", "e", "s", "f", "o", "r", "c", "e", "_", "l", "o", "g", "o", "u", "t">>
    /\ results[1].status = "skipped (write op)"
    /\ results[2].status = "ok"
    /\ invoked = <<results[2].tool>>

====
